---- MODULE Spec2Model ----
(***************************************************************************)
(* State-machine model of the fraud detector: the Detector aggregate       *)
(* (internal/detector/fraud_detector.go) and its collaborators, the        *)
(* VelocityTracker, GeoAnalyzer, PatternMatcher, SimpleMLModel and the     *)
(* default rules and patterns (internal/ml/engine.go, package detector).   *)
(*                                                                         *)
(* Numbers.  A float64 is a record [k, v]: k = "fin" with v the value in   *)
(* thousandths, k = "inf" with v = 1 or -1, or k = "nan".  Every finite    *)
(* weight of the model is a multiple of 0.05, so sums and the halving of   *)
(* the predictive blend are exact in thousandths.  Time is an integer      *)
(* number of hours on the wall clock; a transaction amount is an integer   *)
(* number of cents.                                                        *)
(***************************************************************************)
EXTENDS Integers, Sequences, FiniteSets, TLC

VARIABLES
    rules,          \* Detector.rules: the ordered rule collection
    accounts,       \* VelocityTracker.accounts: account -> timestamp list
    lastLocations,  \* GeoAnalyzer.lastLocations: account -> locationData
    config,         \* Detector.config
    now,            \* the wall clock read by time.Now()
    last,           \* the last call: operation, arguments, clock reads
    res,            \* what the last call returned
    calls,          \* number of Analyze calls made on non-nil transactions
    arg,            \* input of the pure-function specifications
    ret,            \* output of the pure-function specifications
    mu,             \* Detector.mu: the sync.RWMutex over Detector.rules
    pc,             \* goroutine -> where it stands in its operation
    frame           \* goroutine -> the locals of its operation

vars == <<rules, accounts, lastLocations, config, now, last, res, calls, arg, ret,
          mu, pc, frame>>

lockVars == <<mu, pc, frame>>

detectorVars == <<rules, accounts, lastLocations, config, now, last, res, calls>>

pureVars == <<arg, ret, lockVars>>

-----------------------------------------------------------------------------
(* Bounds of the model *)

MaxTime == 1

MaxCalls == 2

MaxCustomRules == 1

MaxStep == 1

(* The zero time.Time{}: long before the epoch of the clock; its hour is 0. *)
ZeroTime == -25

-----------------------------------------------------------------------------
(* float64 *)

F(n) == [k |-> "fin", v |-> n]

NaN == [k |-> "nan", v |-> 0]

PInf == [k |-> "inf", v |-> 1]

NInf == [k |-> "inf", v |-> -1]

IsNaN(x) == x.k = "nan"

(* x + y of IEEE 754: NaN is absorbing and +Inf + -Inf is NaN. *)
FAdd(x, y) ==
    IF IsNaN(x) \/ IsNaN(y) THEN NaN
    ELSE IF x.k = "inf" /\ y.k = "inf" THEN (IF x.v = y.v THEN x ELSE NaN)
    ELSE IF x.k = "inf" THEN x
    ELSE IF y.k = "inf" THEN y
    ELSE F(x.v + y.v)

(* x / 2; the finite values of the model are multiples of 0.05 so the sum  *)
(* of two of them halves exactly in thousandths.                           *)
FHalf(x) ==
    IF x.k = "fin" THEN F(x.v \div 2) ELSE x

(* x >= y of IEEE 754: every comparison with a NaN is false. *)
FGe(x, y) ==
    IF IsNaN(x) \/ IsNaN(y) THEN FALSE
    ELSE IF x.k = "inf" THEN (x.v = 1 \/ (y.k = "inf" /\ y.v = -1))
    ELSE IF y.k = "inf" THEN y.v = -1
    ELSE x.v >= y.v

FGt(x, y) ==
    IF IsNaN(x) \/ IsNaN(y) THEN FALSE
    ELSE IF x.k = "inf" THEN (x.v = 1 /\ ~(y.k = "inf" /\ y.v = 1))
    ELSE IF y.k = "inf" THEN y.v = -1
    ELSE x.v > y.v

FLt(x, y) == FGt(y, x)

FLe(x, y) == FGe(y, x)

(* math.Max and math.Min of Go: a NaN argument gives NaN. *)
MathMax(x, y) ==
    IF IsNaN(x) \/ IsNaN(y) THEN NaN
    ELSE IF FGe(x, y) THEN x ELSE y

MathMin(x, y) ==
    IF IsNaN(x) \/ IsNaN(y) THEN NaN
    ELSE IF FGe(y, x) THEN x ELSE y

-----------------------------------------------------------------------------
(* Transactions *)

Accounts == {"ACC-A", "ACC-B"}

(* NYC = (40.7128, -74.0060) and PHL = (39.9526, -75.1652): 130 km apart,  *)
(* too far for no elapsed time and near enough for one hour, so both        *)
(* outcomes of the travel test occur within the horizon of the clock.       *)
Locations == {"NYC", "PHL"}

Amounts == {10000, 1500000}

Merchants == {"M1"}

Types == {"PURCHASE"}

Devices == {"DEV-1"}

Addresses == {"10.0.0.1"}

NilTx == [nil |-> TRUE]

Timestamps(t) == {ZeroTime, t}

Transactions(t) ==
    [nil : {FALSE}, AccountID : Accounts, Amount : Amounts,
     MerchantID : Merchants, Location : Locations, Timestamp : Timestamps(t),
     Type : Types, DeviceID : Devices, IPAddress : Addresses]

(* t.Hour().  Clock value 0 is 01:00, so that the clock runs over the hours *)
(* 1, 2, ... and both sides of the 2..5 band of UNUSUAL_TIME occur.         *)
Hour(t) == (t + 1) % 24

-----------------------------------------------------------------------------
(* Rules and patterns *)

Reason(text, n, h) == [text |-> text, n |-> n, h |-> h]

Rule(id, desc, cond, score, action) ==
    [ID |-> id, Description |-> desc, Condition |-> cond, Score |-> score,
     Action |-> action]

DefaultRules ==
    << Rule("HIGH_AMOUNT", "Transaction amount exceeds threshold",
            "amount>10000", F(300), "REVIEW"),
       Rule("UNUSUAL_TIME", "Transaction at unusual hours",
            "hour in 2..5", F(200), "FLAG"),
       Rule("NEW_MERCHANT", "First transaction with merchant",
            "merchant=NEW", F(100), "MONITOR") >>

(* Rule values a caller hands to AddRule.  AddRule validates nothing: the   *)
(* weight is any float64, the predicate may be the nil func, the ID may be  *)
(* one already in the collection.                                           *)
CustomRules ==
    { Rule("CUSTOM", "Custom fraud detection rule", "true", F(-500), "BLOCK"),
      Rule("CUSTOM", "Custom fraud detection rule", "true", NaN, "BLOCK"),
      Rule("RULE1", "", "nil", F(100), "") }

RuleIDs == {"HIGH_AMOUNT", "CUSTOM", "RULE1", "NON_EXISTENT"}

(* The predicates with HIGH_AMOUNT firing from 10000 on. *)
Condition_AtLeast(cond, tx) ==
    CASE cond = "amount>10000" -> tx.Amount >= 1000000
      [] cond = "hour in 2..5" -> Hour(tx.Timestamp) >= 2 /\ Hour(tx.Timestamp) <= 5
      [] cond = "merchant=NEW" -> tx.MerchantID = "NEW"
      [] cond = "true" -> TRUE
      [] OTHER -> FALSE

(* The value of rule.Condition(tx) for a non-nil func. *)
Condition(cond, tx) ==
    CASE cond = "amount>10000" -> tx.Amount > 1000000
      [] cond = "hour in 2..5" -> Hour(tx.Timestamp) >= 2 /\ Hour(tx.Timestamp) <= 5
      [] cond = "merchant=NEW" -> tx.MerchantID = "NEW"
      [] cond = "true" -> TRUE
      [] OTHER -> FALSE

(* Calling a nil func value panics (runtime error: nil dereference). *)
Faults(cond) == cond = "nil"

Pattern(name, desc, matcher, score) ==
    [Name |-> name, Description |-> desc, Matcher |-> matcher, Score |-> score]

DefaultPatterns ==
    << Pattern("RAPID_FIRE", "Multiple transactions in rapid succession",
               "false", F(400)),
       Pattern("ROUND_AMOUNT", "Suspicious round amount",
               "round>1000", F(100)) >>

(* ROUND_AMOUNT firing from 1000 on. *)
Matcher_AtLeast(m, tx) ==
    CASE m = "round>1000" -> tx.Amount % 100 = 0 /\ tx.Amount >= 100000
      [] OTHER -> FALSE

Matcher(m, tx) ==
    CASE m = "round>1000" -> tx.Amount % 100 = 0 /\ tx.Amount > 100000
      [] OTHER -> FALSE

(* The loop of applyRules over rs[i..]: total and reasons so far are the    *)
(* accumulators.  A faulting predicate unwinds the loop (and the caller).   *)
RECURSIVE applyRulesLoop(_, _, _, _, _)
applyRulesLoop(rs, i, tx, totalScore, reasons) ==
    IF i > Len(rs) THEN [panic |-> FALSE, score |-> totalScore, reasons |-> reasons]
    ELSE IF Faults(rs[i].Condition)
         THEN [panic |-> TRUE, score |-> totalScore, reasons |-> reasons]
    ELSE IF Condition(rs[i].Condition, tx)
         THEN applyRulesLoop(rs, i + 1, tx, FAdd(totalScore, rs[i].Score),
                             Append(reasons, Reason(rs[i].Description, 0, 0)))
    ELSE applyRulesLoop(rs, i + 1, tx, totalScore, reasons)

applyRules(rs, tx) == applyRulesLoop(rs, 1, tx, F(0), <<>>)

RECURSIVE MatchLoop(_, _, _, _, _)
MatchLoop(ps, i, tx, totalScore, reasons) ==
    IF i > Len(ps) THEN [score |-> totalScore, reasons |-> reasons]
    ELSE IF Matcher(ps[i].Matcher, tx)
         THEN MatchLoop(ps, i + 1, tx, FAdd(totalScore, ps[i].Score),
                        Append(reasons, Reason(ps[i].Description, 0, 0)))
    ELSE MatchLoop(ps, i + 1, tx, totalScore, reasons)

Match(tx) == MatchLoop(DefaultPatterns, 1, tx, F(0), <<>>)

matchPatterns(tx) == Match(tx)

-----------------------------------------------------------------------------
(* SimpleMLModel *)

(* Predict lowering the confidence for a missing DeviceID only. *)
Predict_DeviceOnly(tx) ==
    LET s1 == IF tx.Amount > 1000000 THEN 200 ELSE 0
        s2 == IF tx.Amount > 5000000 THEN 300 ELSE 0
        s3 == IF Hour(tx.Timestamp) >= 2 /\ Hour(tx.Timestamp) <= 5 THEN 100 ELSE 0
        s4 == IF tx.Type = "WIRE_TRANSFER" THEN 150 ELSE 0
        c1 == IF tx.DeviceID = "" THEN 100 ELSE 0
    IN  [score |-> MathMin(F(1000), F(s1 + s2 + s3 + s4)),
         confidence |-> F(850 - c1)]

(* A model that scores every transaction 0. *)
Predict_Untrained(tx) ==
    [score |-> F(0),
     confidence |-> F(850 - (IF tx.DeviceID = "" THEN 100 ELSE 0)
                        - (IF tx.IPAddress = "" THEN 100 ELSE 0))]

Predict(tx) ==
    LET s1 == IF tx.Amount > 1000000 THEN 200 ELSE 0
        s2 == IF tx.Amount > 5000000 THEN 300 ELSE 0
        s3 == IF Hour(tx.Timestamp) >= 2 /\ Hour(tx.Timestamp) <= 5 THEN 100 ELSE 0
        s4 == IF tx.Type = "WIRE_TRANSFER" THEN 150 ELSE 0
        c1 == IF tx.DeviceID = "" THEN 100 ELSE 0
        c2 == IF tx.IPAddress = "" THEN 100 ELSE 0
    IN  [score |-> MathMin(F(1000), F(s1 + s2 + s3 + s4)),
         confidence |-> F(850 - c1 - c2)]

-----------------------------------------------------------------------------
(* VelocityTracker *)

(* t.After(cutoff) *)
After(t, cutoff) == t > cutoff

RECURSIVE Filter(_, _)
Filter(ts, cutoff) ==
    IF ts = <<>> THEN <<>>
    ELSE IF After(Head(ts), cutoff) THEN <<Head(ts)>> \o Filter(Tail(ts), cutoff)
    ELSE Filter(Tail(ts), cutoff)

(* Track pruning by the transaction's Timestamp instead of the wall clock. *)
(* Track pruning the list of every account while it holds the map. *)
Track_PruneAll(accts, window, tx, t) ==
    LET id == tx.AccountID
        old == IF id \in DOMAIN accts THEN accts[id] ELSE <<>>
        newTxs == Filter(old, t - window)
    IN  [a \in DOMAIN accts \cup {id} |->
            IF a = id THEN Append(newTxs, tx.Timestamp)
            ELSE Filter(accts[a], t - window)]

Track_PruneByTx(accts, window, tx, t) ==
    LET id == tx.AccountID
        old == IF id \in DOMAIN accts THEN accts[id] ELSE <<>>
        newTxs == Filter(old, tx.Timestamp - window)
    IN  [a \in DOMAIN accts \cup {id} |->
            IF a = id THEN Append(newTxs, tx.Timestamp) ELSE accts[a]]

(* Track at clock reading t: create the entry if absent, drop the stored    *)
(* timestamps not after t - window, append tx.Timestamp.                    *)
Track(accts, window, tx, t) ==
    LET id == tx.AccountID
        old == IF id \in DOMAIN accts THEN accts[id] ELSE <<>>
        newTxs == Filter(old, t - window)
    IN  [a \in DOMAIN accts \cup {id} |->
            IF a = id THEN Append(newTxs, tx.Timestamp) ELSE accts[a]]

(* GetCount returning the length of the stored list, without filtering it   *)
(* again.                                                                   *)
GetCount_Stored(accts, window, accountID, t) ==
    IF accountID \notin DOMAIN accts THEN 0
    ELSE Len(accts[accountID])

(* GetCount at clock reading t. *)
GetCount(accts, window, accountID, t) ==
    IF accountID \notin DOMAIN accts THEN 0
    ELSE Len(Filter(accts[accountID], t - window))

(* checkVelocity with the comparison off by one: count >= MaxVelocity. *)
checkVelocity_AtMax(accts, cfg, tx, t0, t1) ==
    LET tracked == Track(accts, cfg.VelocityWindow, tx, t0)
        count == GetCount(tracked, cfg.VelocityWindow, tx.AccountID, t1)
    IN  IF count >= cfg.MaxVelocity
        THEN [accounts |-> tracked, count |-> count, score |-> F(300),
              reason |-> Reason("High transaction velocity", count, 0)]
        ELSE [accounts |-> tracked, count |-> count, score |-> F(0),
              reason |-> Reason("", 0, 0)]

(* checkVelocity: Track at clock reading t0, GetCount at clock reading t1. *)
checkVelocity(accts, cfg, tx, t0, t1) ==
    LET tracked == Track(accts, cfg.VelocityWindow, tx, t0)
        count == GetCount(tracked, cfg.VelocityWindow, tx.AccountID, t1)
    IN  IF count > cfg.MaxVelocity
        THEN [accounts |-> tracked, count |-> count, score |-> F(300),
              reason |-> Reason("High transaction velocity", count, 0)]
        ELSE [accounts |-> tracked, count |-> count, score |-> F(0),
              reason |-> Reason("", 0, 0)]

-----------------------------------------------------------------------------
(* GeoAnalyzer *)

(* UpdateLocation keeping the record an account already has. *)
UpdateLocation_KeepFirst(locs, accountID, loc, t) ==
    [a \in DOMAIN locs \cup {accountID} |->
        IF a \in DOMAIN locs THEN locs[a] ELSE [location |-> loc, time |-> t]]

UpdateLocation(locs, accountID, loc, t) ==
    [a \in DOMAIN locs \cup {accountID} |->
        IF a = accountID THEN [location |-> loc, time |-> t] ELSE locs[a]]

(* The haversine distance of lines 232-246 in whole kilometres, tabulated   *)
(* for New York, Philadelphia and London = (51.5074, -0.1278).              *)
CalculateDistance(loc1, loc2) ==
    CASE loc1 = loc2 -> 0
      [] {loc1, loc2} = {"NYC", "PHL"} -> 130
      [] {loc1, loc2} = {"NYC", "LON"} -> 5570
      [] {loc1, loc2} = {"PHL", "LON"} -> 5700

(* analyzeGeography measuring the elapsed time from the transaction's own   *)
(* Timestamp instead of the wall clock.                                     *)
analyzeGeography_TxTime(locs, tx, t2, t3) ==
    IF tx.AccountID \notin DOMAIN locs
    THEN [lastLocations |-> UpdateLocation(locs, tx.AccountID, tx.Location, t3),
          score |-> F(0), reason |-> Reason("", 0, 0)]
    ELSE LET lastLocation == locs[tx.AccountID].location
             distance == CalculateDistance(lastLocation, tx.Location)
             hours == tx.Timestamp - locs[tx.AccountID].time
             maxPossibleDistance == hours * 900
         IN  IF distance > maxPossibleDistance
             THEN [lastLocations |-> locs, score |-> F(500),
                   reason |-> Reason("Impossible travel detected", distance, hours)]
             ELSE [lastLocations |-> UpdateLocation(locs, tx.AccountID, tx.Location, t3),
                   score |-> F(0), reason |-> Reason("", 0, 0)]

(* analyzeGeography without the nil check: an account never seen is read as *)
(* the zero Location observed at the zero time, so the first transaction    *)
(* goes through the distance test and is not stored when it fails it.       *)
analyzeGeography_NoNilCheck(locs, tx, t2, t3) ==
    LET known == tx.AccountID \in DOMAIN locs
        distance == IF known
                    THEN CalculateDistance(locs[tx.AccountID].location, tx.Location)
                    ELSE 8000
        hours == IF known THEN t2 - locs[tx.AccountID].time ELSE 0
    IN  IF distance > hours * 900
        THEN [lastLocations |-> locs, score |-> F(500),
              reason |-> Reason("Impossible travel detected", distance, hours)]
        ELSE [lastLocations |-> UpdateLocation(locs, tx.AccountID, tx.Location, t3),
              score |-> F(0), reason |-> Reason("", 0, 0)]

(* analyzeGeography: time.Since reads the clock at t2, UpdateLocation at t3. *)
analyzeGeography(locs, tx, t2, t3) ==
    IF tx.AccountID \notin DOMAIN locs
    THEN [lastLocations |-> UpdateLocation(locs, tx.AccountID, tx.Location, t3),
          score |-> F(0), reason |-> Reason("", 0, 0)]
    ELSE LET lastLocation == locs[tx.AccountID].location
             distance == CalculateDistance(lastLocation, tx.Location)
             hours == t2 - locs[tx.AccountID].time
             maxPossibleDistance == hours * 900
         IN  IF distance > maxPossibleDistance
             THEN [lastLocations |-> locs, score |-> F(500),
                   reason |-> Reason("Impossible travel detected", distance, hours)]
             ELSE [lastLocations |-> UpdateLocation(locs, tx.AccountID, tx.Location, t3),
                   score |-> F(0), reason |-> Reason("", 0, 0)]

-----------------------------------------------------------------------------
(* Detector *)

(* The detector configurations of the model: the zero-value Config{}, and   *)
(* a one-hour window with at most one transaction in it, a block threshold  *)
(* of 0.8 and the predictive model disabled or enabled.                     *)
ZeroConfig ==
    [MaxVelocity |-> 0, VelocityWindow |-> 0, HighRiskThreshold |-> F(0),
     BlockThreshold |-> F(0), MLEnabled |-> FALSE]

Configs ==
    { ZeroConfig,
      [MaxVelocity |-> 1, VelocityWindow |-> 1, HighRiskThreshold |-> F(600),
       BlockThreshold |-> F(800), MLEnabled |-> FALSE],
      [MaxVelocity |-> 1, VelocityWindow |-> 1, HighRiskThreshold |-> F(600),
       BlockThreshold |-> F(800), MLEnabled |-> TRUE] }

NilScore == [nil |-> TRUE]

FraudScore(score, risk, reasons, confidence, shouldBlock, timestamp) ==
    [nil |-> FALSE, Score |-> score, Risk |-> risk, Reasons |-> reasons,
     Confidence |-> confidence, ShouldBlock |-> shouldBlock,
     Timestamp |-> timestamp]

Result(score, err, panic) == [score |-> score, err |-> err, panic |-> panic]

NoResult == Result(NilScore, "", FALSE)

(* What a call did, as its local variables show it: the count GetCount     *)
(* returned and the clock it read (tCount), the clock time.Since read       *)
(* (tGeo), the velocity and geo contributions, and whether GetLastLocation  *)
(* returned nil (first).                                                    *)
Trace(count, tCount, tGeo, vScore, gScore, first) ==
    [count |-> count, tCount |-> tCount, tGeo |-> tGeo, vScore |-> vScore,
     gScore |-> gScore, first |-> first]

NoTrace == Trace(0, 0, 0, F(0), F(0), FALSE)

Call(op, tx, ruleID, trace) ==
    [op |-> op, tx |-> tx, ruleID |-> ruleID, trace |-> trace]

(* score.Score = math.Min(1.0, math.Max(0.0, score.Score)) *)
Clamp(x) == MathMin(F(1000), MathMax(F(0), x))

(* determineRiskLevel with the labels of the 0.6 and 0.4 cases exchanged. *)
determineRiskLevel_Swapped(score) ==
    CASE FGe(score, F(800)) -> "CRITICAL"
      [] ~FGe(score, F(800)) /\ FGe(score, F(600)) -> "MEDIUM"
      [] ~FGe(score, F(600)) /\ FGe(score, F(400)) -> "HIGH"
      [] ~FGe(score, F(400)) /\ FGe(score, F(200)) -> "LOW"
      [] OTHER -> "MINIMAL"

determineRiskLevel(score) ==
    CASE FGe(score, F(800)) -> "CRITICAL"
      [] ~FGe(score, F(800)) /\ FGe(score, F(600)) -> "HIGH"
      [] ~FGe(score, F(600)) /\ FGe(score, F(400)) -> "MEDIUM"
      [] ~FGe(score, F(400)) /\ FGe(score, F(200)) -> "LOW"
      [] OTHER -> "MINIMAL"

(* score.ShouldBlock = score.Score >= d.config.BlockThreshold *)
(* ShouldBlock deciding on the high-risk threshold. *)
ShouldBlock_HighRisk(score, cfg) == FGe(score, cfg.HighRiskThreshold)

ShouldBlock(score, cfg) == FGe(score, cfg.BlockThreshold)

(* The predictive stage adding the model's score to the running score     *)
(* instead of averaging the two.                                            *)
Blend_Sum(cfg, tx, running) ==
    IF cfg.MLEnabled
    THEN [score |-> FAdd(running, Predict(tx).score),
          confidence |-> Predict(tx).confidence]
    ELSE [score |-> running, confidence |-> F(0)]

(* The predictive stage: the average of the running score and the model's   *)
(* score, and the model's confidence; skipped when the model is disabled.   *)
Blend(cfg, tx, running) ==
    IF cfg.MLEnabled
    THEN [score |-> FHalf(FAdd(running, Predict(tx).score)),
          confidence |-> Predict(tx).confidence]
    ELSE [score |-> running, confidence |-> F(0)]

(* Analyze without the nil check taking effect: the nil transaction falls   *)
(* through to an empty, successful result.                                  *)
AnalyzeNil_NoError(accts, locs) ==
    [accounts |-> accts, lastLocations |-> locs, trace |-> NoTrace,
     result |-> Result(NilScore, "", FALSE)]

(* The return of Analyze on a nil transaction: nothing is evaluated. *)
AnalyzeNil(accts, locs) ==
    [accounts |-> accts, lastLocations |-> locs, trace |-> NoTrace,
     result |-> Result(NilScore, "transaction is nil", FALSE)]

(* Analyze with the geo stage reporting before the velocity stage. *)
AnalyzeTx_GeoFirst(cfg, rs, accts, locs, tx, t0, t1, t2, t3) ==
    LET r == applyRules(rs, tx)
        v == checkVelocity(accts, cfg, tx, t0, t1)
        g == analyzeGeography(locs, tx, t2, t3)
        p == matchPatterns(tx)
        s1 == FAdd(F(0), r.score)
        s2 == IF FGt(v.score, F(0)) THEN FAdd(s1, v.score) ELSE s1
        s3 == IF FGt(g.score, F(0)) THEN FAdd(s2, g.score) ELSE s2
        s4 == FAdd(s3, p.score)
        reasons == r.reasons
                   \o (IF FGt(g.score, F(0)) THEN <<g.reason>> ELSE <<>>)
                   \o (IF FGt(v.score, F(0)) THEN <<v.reason>> ELSE <<>>)
                   \o p.reasons
        b == Blend(cfg, tx, s4)
        final == Clamp(b.score)
    IN  IF r.panic
        THEN [accounts |-> accts, lastLocations |-> locs, trace |-> NoTrace,
              result |-> Result(NilScore, "", TRUE)]
        ELSE [accounts |-> v.accounts, lastLocations |-> g.lastLocations,
              trace |-> Trace(v.count, t1, t2, v.score, g.score,
                              tx.AccountID \notin DOMAIN locs),
              result |-> Result(FraudScore(final, determineRiskLevel(final),
                                           reasons, b.confidence,
                                           ShouldBlock(final, cfg), t0),
                                "", FALSE)]

(* Analyze on a non-nil transaction.  t0 is the clock at entry (the         *)
(* FraudScore timestamp and Track's pruning), t1 the clock at GetCount, t2  *)
(* at time.Since and t3 at UpdateLocation.  A faulting rule predicate unwinds  *)
(* Analyze out of its first stage: nothing is returned and the later stages *)
(* do not run.                                                              *)
AnalyzeTx(cfg, rs, accts, locs, tx, t0, t1, t2, t3) ==
    LET r == applyRules(rs, tx)
        v == checkVelocity(accts, cfg, tx, t0, t1)
        g == analyzeGeography(locs, tx, t2, t3)
        p == matchPatterns(tx)
        s1 == FAdd(F(0), r.score)
        s2 == IF FGt(v.score, F(0)) THEN FAdd(s1, v.score) ELSE s1
        s3 == IF FGt(g.score, F(0)) THEN FAdd(s2, g.score) ELSE s2
        s4 == FAdd(s3, p.score)
        reasons == r.reasons
                   \o (IF FGt(v.score, F(0)) THEN <<v.reason>> ELSE <<>>)
                   \o (IF FGt(g.score, F(0)) THEN <<g.reason>> ELSE <<>>)
                   \o p.reasons
        b == Blend(cfg, tx, s4)
        final == Clamp(b.score)
    IN  IF r.panic
        THEN [accounts |-> accts, lastLocations |-> locs, trace |-> NoTrace,
              result |-> Result(NilScore, "", TRUE)]
        ELSE [accounts |-> v.accounts, lastLocations |-> g.lastLocations,
              trace |-> Trace(v.count, t1, t2, v.score, g.score,
                              tx.AccountID \notin DOMAIN locs),
              result |-> Result(FraudScore(final, determineRiskLevel(final),
                                           reasons, b.confidence,
                                           ShouldBlock(final, cfg), t0),
                                "", FALSE)]

(* The readings of the clock inside one call after the one at entry: c[1]   *)
(* by GetCount, c[2] by the geo stage (time.Since and UpdateLocation fall   *)
(* in the same hour).  Non-decreasing, at most MaxStep after entry, within  *)
(* the horizon of the model.                                                *)
ClockReads(t) ==
    { c \in [1..2 -> t..(t + MaxStep)] : c[1] <= c[2] /\ c[2] <= MaxTime }

Analyze ==
    \/ /\ \E o \in {AnalyzeNil(accounts, lastLocations)} :
              /\ accounts' = o.accounts
              /\ lastLocations' = o.lastLocations
              /\ res' = o.result
              /\ last' = Call("Analyze", NilTx, "", o.trace)
       /\ UNCHANGED <<rules, config, now, calls, arg, ret, lockVars>>
    \/ /\ calls < MaxCalls
       /\ \E tx \in Transactions(now), c \in ClockReads(now) :
            \E o \in {AnalyzeTx(config, rules, accounts, lastLocations, tx,
                               now, c[1], c[2], c[2])} :
                /\ accounts' = o.accounts
                /\ lastLocations' = o.lastLocations
                /\ res' = o.result
                /\ last' = Call("Analyze", tx, "", o.trace)
                /\ now' = IF o.result.panic THEN now ELSE c[2]
       /\ calls' = calls + 1
       /\ UNCHANGED <<rules, config, arg, ret, lockVars>>

IsCustom(rule) == \A i \in 1..Len(DefaultRules) : DefaultRules[i] # rule

NumCustom(rs) == Cardinality({i \in 1..Len(rs) : IsCustom(rs[i])})

(* AddRule of one of the candidates: d.rules = append(d.rules, rule) *)
AddRuleFrom(candidates) ==
    /\ \E rule \in candidates :
         /\ rules' = Append(rules, rule)
         /\ last' = Call("AddRule", NilTx, rule.ID, NoTrace)
    /\ res' = NoResult
    /\ UNCHANGED <<accounts, lastLocations, config, now, calls, arg, ret, lockVars>>

AddRule ==
    /\ NumCustom(rules) < MaxCustomRules
    /\ AddRuleFrom(CustomRules)

(* The index of the last rule carrying ruleID, 0 if there is none. *)
FirstIndex_Last(rs, ruleID) ==
    IF \E i \in 1..Len(rs) : rs[i].ID = ruleID
    THEN CHOOSE i \in 1..Len(rs) :
            /\ rs[i].ID = ruleID
            /\ \A j \in (i + 1)..Len(rs) : rs[j].ID # ruleID
    ELSE 0

(* The index of the first rule carrying ruleID, 0 if there is none. *)
FirstIndex(rs, ruleID) ==
    IF \E i \in 1..Len(rs) : rs[i].ID = ruleID
    THEN CHOOSE i \in 1..Len(rs) :
            /\ rs[i].ID = ruleID
            /\ \A j \in 1..(i - 1) : rs[j].ID # ruleID
    ELSE 0

(* d.rules[:i] alone: the rules after the removed one are dropped too. *)
RemoveAt_Truncate(rs, i) == SubSeq(rs, 1, i - 1)

(* append(d.rules[:i], d.rules[i+1:]...) *)
RemoveAt(rs, i) == SubSeq(rs, 1, i - 1) \o SubSeq(rs, i + 1, Len(rs))

(* RemoveRule returning nil after the loop has found no match. *)
RemoveRuleOf_Silent(rs, ruleID) ==
    LET i == FirstIndex(rs, ruleID)
    IN  IF i = 0
        THEN [rules |-> rs, result |-> NoResult]
        ELSE [rules |-> RemoveAt(rs, i), result |-> NoResult]

(* The collection RemoveRule leaves and the error it returns: the first     *)
(* rule carrying ruleID is cut out, or fmt.Errorf("rule not found: %s").    *)
RemoveRuleOf(rs, ruleID) ==
    LET i == FirstIndex(rs, ruleID)
    IN  IF i = 0
        THEN [rules |-> rs, result |-> Result(NilScore, "rule not found", FALSE)]
        ELSE [rules |-> RemoveAt(rs, i), result |-> NoResult]

RemoveRuleFrom(ids) ==
    /\ \E ruleID \in ids :
         \E o \in {RemoveRuleOf(rules, ruleID)} :
             /\ rules' = o.rules
             /\ res' = o.result
             /\ last' = Call("RemoveRule", NilTx, ruleID, NoTrace)
    /\ UNCHANGED <<accounts, lastLocations, config, now, calls, arg, ret, lockVars>>

RemoveRule == RemoveRuleFrom(RuleIDs)

(* GetMetrics with the rule count of the default collection in place of     *)
(* the current one.                                                         *)
Metrics_DefaultCount(rs, cfg) ==
    [total_rules |-> Len(DefaultRules), velocity_window |-> cfg.VelocityWindow,
     high_risk_threshold |-> cfg.HighRiskThreshold, ml_enabled |-> cfg.MLEnabled]

(* The map GetMetrics returns. *)
Metrics(rs, cfg) ==
    [total_rules |-> Len(rs), velocity_window |-> cfg.VelocityWindow,
     high_risk_threshold |-> cfg.HighRiskThreshold, ml_enabled |-> cfg.MLEnabled]

MetricsResult(m) ==
    [score |-> NilScore, err |-> "", panic |-> FALSE, metrics |-> m]

GetMetrics ==
    /\ res' = MetricsResult(Metrics(rules, config))
    /\ last' = Call("GetMetrics", NilTx, "", NoTrace)
    /\ UNCHANGED <<rules, accounts, lastLocations, config, now, calls, arg, ret, lockVars>>

(* Wall-clock time passing between calls. *)
Tick ==
    /\ now < MaxTime
    /\ now' = now + 1
    /\ last' = Call("Tick", NilTx, "", NoTrace)
    /\ res' = NoResult
    /\ UNCHANGED <<rules, accounts, lastLocations, config, calls, arg, ret, lockVars>>

(* The goroutines calling into one Detector. *)
Goroutines == {"g1", "g2", "g3"}

NoRule == Rule("", "", "nil", F(0), "")

(* The locals of a goroutine outside any operation. *)
IdleFrame ==
    [op |-> "", rule |-> NoRule, ruleID |-> "", n |-> 0, i |-> 0,
     snap |-> <<>>, seen |-> <<>>, total |-> 0, err |-> ""]

(* The zero sync.RWMutex: no reader, no writer, no writer waiting. *)
Unlocked == [readers |-> {}, writer |-> "", pending |-> {}]

(* The sequential specifications run every operation on one goroutine, to   *)
(* completion: the mutex is free and no goroutine is inside an operation.   *)
NoGoroutines ==
    /\ mu = Unlocked
    /\ pc = [g \in Goroutines |-> "idle"]
    /\ frame = [g \in Goroutines |-> IdleFrame]

EmptyMap == [a \in {} |-> 0]

(* NewDetector(config) *)
Init ==
    /\ config \in Configs
    /\ rules = DefaultRules
    /\ accounts = EmptyMap
    /\ lastLocations = EmptyMap
    /\ now = 0
    /\ last = Call("NewDetector", NilTx, "", NoTrace)
    /\ res = NoResult
    /\ calls = 0
    /\ NoGoroutines
    /\ arg = 0
    /\ ret = 0

Next == Analyze \/ AddRule \/ RemoveRule \/ GetMetrics \/ Tick

Spec == Init /\ [][Next]_vars

-----------------------------------------------------------------------------
(* Risk tier classification as a pure function of two scores *)

MaxScoreUnits == 30

(* Scores from -0.25 to MaxScoreUnits * 0.05, and the non-finite ones. *)
Scores ==
    {F(50 * i) : i \in (0 - 5)..MaxScoreUnits} \cup {NaN, PInf, NInf}

InitRisk ==
    /\ config = ZeroConfig
    /\ rules = DefaultRules
    /\ accounts = EmptyMap
    /\ lastLocations = EmptyMap
    /\ now = 0
    /\ last = Call("NewDetector", NilTx, "", NoTrace)
    /\ res = NoResult
    /\ calls = 0
    /\ NoGoroutines
    /\ arg \in Scores \X Scores
    /\ ret = <<"", "">>

Classify ==
    /\ ret = <<"", "">>
    /\ ret' = <<determineRiskLevel(arg[1]), determineRiskLevel(arg[2])>>
    /\ UNCHANGED <<detectorVars, lockVars, arg>>

NextRisk == Classify

SpecRisk == InitRisk /\ [][NextRisk]_vars

-----------------------------------------------------------------------------
(* The predictive stage and the clamp (Analyze, lines 121-129) as a pure    *)
(* function of the configuration, the transaction and the running score     *)

(* Transactions over every feature SimpleMLModel.Predict looks at. *)
BlendTransactions ==
    [nil : {FALSE}, AccountID : {"ACC-A"}, Amount : {10000, 1500000, 6000000},
     MerchantID : Merchants, Location : {"NYC"}, Timestamp : {0, 1},
     Type : {"PURCHASE", "WIRE_TRANSFER"}, DeviceID : {"DEV-1", ""},
     IPAddress : {"10.0.0.1", ""}]

InitBlend ==
    /\ config = ZeroConfig
    /\ rules = DefaultRules
    /\ accounts = EmptyMap
    /\ lastLocations = EmptyMap
    /\ now = 0
    /\ last = Call("NewDetector", NilTx, "", NoTrace)
    /\ res = NoResult
    /\ calls = 0
    /\ NoGoroutines
    /\ arg \in [cfg : Configs, tx : BlendTransactions, running : Scores]
    /\ ret = NilScore

(* pre is score.Score after the predictive stage, Score after the clamp. *)
ApplyBlend ==
    /\ ret = NilScore
    /\ \E b \in {Blend(arg.cfg, arg.tx, arg.running)} :
         ret' = [pre |-> b.score, Score |-> Clamp(b.score),
                 Confidence |-> b.confidence]
    /\ UNCHANGED <<detectorVars, lockVars, arg>>

(* SimpleMLModel.Predict alone, on the transactions of InitBlend; tx is the  *)
(* transaction as Predict leaves it.                                        *)
ApplyPredict ==
    /\ ret = NilScore
    /\ \E p \in {Predict(arg.tx)} :
         ret' = [op |-> "Predict", score |-> p.score,
                 confidence |-> p.confidence, tx |-> arg.tx]
    /\ UNCHANGED <<detectorVars, lockVars, arg>>

SpecPredict == InitBlend /\ [][ApplyPredict]_vars

NextBlend == ApplyBlend

SpecBlend == InitBlend /\ [][NextBlend]_vars

-----------------------------------------------------------------------------

(* The transport layer's use of the MLEngine (package ml and the handlers   *)
(* of the API server), as a pure function of the engine, the detector's     *)
(* result and the transaction                                               *)

(* NewMLEngine sets ready; the zero value of MLEngine is not ready. *)
NewMLEngine == [ready |-> TRUE]

MLEngines == {NewMLEngine, [ready |-> FALSE]}

(* The features of a transaction calculateMLScore reads; recent is          *)
(* transaction.Timestamp.After(now.Add(-time.Hour)).                        *)
EngineTransactions ==
    [Amount : {10000, 1500000, 6000000}, Country : {"US", "NG"},
     Type : {"PURCHASE", "cryptocurrency"}, recent : BOOLEAN]

(* rand.Float64() * 0.1, in thousandths. *)
Variances == {0, 50}

(* calculateMLScore; the sum never exceeds 0.3 + 0.2 + 0.25 + 0.2 + 0.1 and *)
(* is never negative, so the two final comparisons clamp at 1.0 only.       *)
calculateMLScore(transaction, r) ==
    LET a1 == IF transaction.Amount > 1000000 THEN 300 ELSE 0
        a2 == IF transaction.Amount > 5000000 THEN 200 ELSE 0
        c == IF transaction.Country \in {"NG", "CN", "RU", "PK"} THEN 250 ELSE 0
        t == IF transaction.Type \in {"cash_advance", "cryptocurrency"}
             THEN 200 ELSE 0
        v == IF transaction.recent THEN r ELSE 0
        score == a1 + a2 + c + t + v
    IN  IF score > 1000 THEN F(1000) ELSE IF score < 0 THEN F(0) ELSE F(score)

(* PredictFraud; r1 and r2 are the two draws of rand.Float64() * 0.1. *)
PredictFraud(e, transaction, r1, r2) ==
    IF ~e.ready
    THEN [score |-> F(0), confidence |-> F(0), err |-> "ML engine not ready"]
    ELSE [score |-> calculateMLScore(transaction, r1),
          confidence |-> F(850 + r2), err |-> ""]

Decision(finalScore) ==
    IF FGe(finalScore, F(800)) THEN "DECLINE"
    ELSE IF FGe(finalScore, F(500)) THEN "REVIEW"
    ELSE "APPROVE"

FraudResponse(riskScore, confidence) ==
    [RiskScore |-> riskScore, Decision |-> Decision(riskScore),
     Confidence |-> confidence]

(* analyzeTransactionHandler from the prediction on; result is the Score    *)
(* of the FraudScore AnalyzeTransaction returned.                           *)
analyzeTransactionHandler(e, result, transaction, r1, r2) ==
    LET p == PredictFraud(e, transaction, r1, r2)
        mlScore == IF p.err # "" THEN result ELSE p.score
        confidence == IF p.err # "" THEN F(500) ELSE p.confidence
    IN  FraudResponse(FHalf(FAdd(result, mlScore)), confidence)

(* One iteration of batchAnalysisHandler from the prediction on; the error  *)
(* of PredictFraud is discarded.                                            *)
batchAnalysisHandler(e, result, transaction, r1, r2) ==
    LET p == PredictFraud(e, transaction, r1, r2)
    IN  FraudResponse(FHalf(FAdd(result, p.score)), p.confidence)

(* Scores a detector returns, in steps of 0.05. *)
UnitScores == {F(50 * i) : i \in 0..20}

InitServe ==
    /\ config = ZeroConfig
    /\ rules = DefaultRules
    /\ accounts = EmptyMap
    /\ lastLocations = EmptyMap
    /\ now = 0
    /\ last = Call("NewDetector", NilTx, "", NoTrace)
    /\ res = NoResult
    /\ calls = 0
    /\ NoGoroutines
    /\ arg \in [engine : MLEngines, result : UnitScores,
                tx : EngineTransactions, r1 : Variances, r2 : Variances]
    /\ ret = NilScore

ServeSingle ==
    /\ ret = NilScore
    /\ ret' = [path |-> "single",
               response |-> analyzeTransactionHandler(arg.engine, arg.result,
                                                      arg.tx, arg.r1, arg.r2)]
    /\ UNCHANGED <<detectorVars, lockVars, arg>>

ServeBatch ==
    /\ ret = NilScore
    /\ ret' = [path |-> "batch",
               response |-> batchAnalysisHandler(arg.engine, arg.result,
                                                 arg.tx, arg.r1, arg.r2)]
    /\ UNCHANGED <<detectorVars, lockVars, arg>>

NextServe == ServeSingle \/ ServeBatch

SpecServe == InitServe /\ [][NextServe]_vars

-----------------------------------------------------------------------------

(* The rule collection under AddRule and RemoveRule alone, over rules that  *)
(* share identifiers and identifiers of every position in the collection    *)

MaxRules == 5

(* Rules handed to AddRule: those of CustomRules, a second rule under the   *)
(* identifier of a default one, and a further rule without a predicate.     *)
ExtraRules ==
    CustomRules
    \cup { Rule("HIGH_AMOUNT", "Large transfer", "true", F(100), "FLAG"),
           Rule("RULE2", "", "nil", F(200), "") }

AllRuleIDs == RuleIDs \cup {"UNUSUAL_TIME", "NEW_MERCHANT", "RULE2"}

AddAnyRule ==
    /\ Len(rules) < MaxRules
    /\ AddRuleFrom(ExtraRules)

RemoveAnyRule == RemoveRuleFrom(AllRuleIDs)

InitRules ==
    /\ config = ZeroConfig
    /\ rules = DefaultRules
    /\ accounts = EmptyMap
    /\ lastLocations = EmptyMap
    /\ now = 0
    /\ last = Call("NewDetector", NilTx, "", NoTrace)
    /\ res = NoResult
    /\ calls = 0
    /\ NoGoroutines
    /\ arg = 0
    /\ ret = 0

NextRules == AddAnyRule \/ RemoveAnyRule

SpecRules == InitRules /\ [][NextRules]_vars

-----------------------------------------------------------------------------

(* Goroutines interleaving on Detector.rules and Detector.mu: the rule      *)
(* stage of Analyze (applyRules), AddRule, RemoveRule and GetMetrics, one   *)
(* step per lock operation and per access to the collection.  calls counts  *)
(* the operations begun.                                                    *)

MaxOps == 4

(* The rules and identifiers the concurrent callers pass. *)
LockRules == {Rule("CUSTOM", "Custom fraud detection rule", "true", F(-500), "BLOCK")}

LockRuleIDs == {"HIGH_AMOUNT", "UNUSUAL_TIME"}

(* RLock waits while a writer holds the mutex or is waiting for it. *)
CanRLock(m) == m.writer = "" /\ m.pending = {}

(* Lock acquiring while readers are still inside. *)
CanLock_IgnoreReaders(m) == m.writer = ""

(* Lock waits until no writer and no reader holds the mutex. *)
CanLock(m) == m.writer = "" /\ m.readers = {}

Begin(g, op, rule, ruleID, at) ==
    /\ pc[g] = "idle"
    /\ calls < MaxOps
    /\ calls' = calls + 1
    /\ pc' = [pc EXCEPT ![g] = at]
    /\ frame' = [frame EXCEPT ![g] = [IdleFrame EXCEPT !.op = op, !.rule = rule,
                                                       !.ruleID = ruleID]]
    /\ UNCHANGED <<rules, accounts, lastLocations, config, now, last, res,
                   arg, ret, mu>>

BeginAnalyze(g) == Begin(g, "Analyze", NoRule, "", "RLock")

BeginAddRule(g) == \E rule \in LockRules : Begin(g, "AddRule", rule, rule.ID, "Lock")

BeginRemoveRule(g) ==
    \E ruleID \in LockRuleIDs : Begin(g, "RemoveRule", NoRule, ruleID, "Lock")

BeginGetMetrics(g) == Begin(g, "GetMetrics", NoRule, "", "len")

(* applyRules: d.mu.RLock() *)
RLock(g) ==
    /\ pc[g] = "RLock"
    /\ CanRLock(mu)
    /\ mu' = [mu EXCEPT !.readers = @ \cup {g}]
    /\ pc' = [pc EXCEPT ![g] = "range"]
    /\ UNCHANGED <<detectorVars, arg, ret, frame>>

(* applyRules: 'range d.rules' reads the slice header once; snap is the     *)
(* collection as it stands at that instant.                                 *)
RangeRules(g) ==
    /\ pc[g] = "range"
    /\ frame' = [frame EXCEPT ![g].n = Len(rules), ![g].i = 1, ![g].snap = rules]
    /\ pc' = [pc EXCEPT ![g] = IF Len(rules) = 0 THEN "RUnlock" ELSE "loop"]
    /\ UNCHANGED <<detectorVars, arg, ret, mu>>

(* applyRules: one iteration reads element i of the backing array as it is  *)
(* now; a slot past the current length still holds what it held.            *)
Evaluate(g) ==
    /\ pc[g] = "loop"
    /\ LET f == frame[g]
           rule == IF f.i <= Len(rules) THEN rules[f.i] ELSE f.snap[f.i]
       IN  /\ frame' = [frame EXCEPT ![g].seen = Append(@, rule), ![g].i = @ + 1]
           /\ pc' = [pc EXCEPT ![g] = IF f.i = f.n THEN "RUnlock" ELSE "loop"]
    /\ UNCHANGED <<detectorVars, arg, ret, mu>>

(* applyRules: the deferred d.mu.RUnlock() *)
RUnlock(g) ==
    /\ pc[g] = "RUnlock"
    /\ mu' = [mu EXCEPT !.readers = @ \ {g}]
    /\ pc' = [pc EXCEPT ![g] = "idle"]
    /\ frame' = [frame EXCEPT ![g] = IdleFrame]
    /\ UNCHANGED <<detectorVars, arg, ret>>

(* AddRule, RemoveRule: d.mu.Lock() is called and the writer waits *)
Lock(g) ==
    /\ pc[g] = "Lock"
    /\ mu' = [mu EXCEPT !.pending = @ \cup {g}]
    /\ pc' = [pc EXCEPT ![g] = "Locking"]
    /\ UNCHANGED <<detectorVars, arg, ret, frame>>

(* AddRule, RemoveRule: d.mu.Lock() returns *)
Locked(g) ==
    /\ pc[g] = "Locking"
    /\ CanLock(mu)
    /\ mu' = [mu EXCEPT !.writer = g, !.pending = @ \ {g}]
    /\ pc' = [pc EXCEPT ![g] = "write"]
    /\ UNCHANGED <<detectorVars, arg, ret, frame>>

(* What the write of a goroutine standing at "write" makes of rs. *)
WriteOf(f, rs) ==
    IF f.op = "AddRule"
    THEN [rules |-> Append(rs, f.rule), result |-> NoResult]
    ELSE RemoveRuleOf(rs, f.ruleID)

(* AddRule: d.rules = append(d.rules, rule); RemoveRule: the loop and       *)
(* d.rules = append(d.rules[:i], d.rules[i+1:]...) or the error              *)
Write(g) ==
    /\ pc[g] = "write"
    /\ \E o \in {WriteOf(frame[g], rules)} :
         /\ rules' = o.rules
         /\ frame' = [frame EXCEPT ![g].err = o.result.err]
    /\ pc' = [pc EXCEPT ![g] = "Unlock"]
    /\ UNCHANGED <<accounts, lastLocations, config, now, last, res, calls,
                   arg, ret, mu>>

(* AddRule, RemoveRule: the deferred d.mu.Unlock() *)
Unlock(g) ==
    /\ pc[g] = "Unlock"
    /\ mu' = [mu EXCEPT !.writer = ""]
    /\ pc' = [pc EXCEPT ![g] = "idle"]
    /\ frame' = [frame EXCEPT ![g] = IdleFrame]
    /\ UNCHANGED <<detectorVars, arg, ret>>

(* The lengths a read of len(d.rules) can return: the current one, or, in   *)
(* a race with a goroutine about to write, the one that write leaves.       *)
RacyLen ==
    {Len(rules)}
    \cup {Len(WriteOf(frame[w], rules).rules) : w \in {g \in Goroutines : pc[g] = "write"}}

(* GetMetrics: "total_rules": len(d.rules), read without d.mu *)
ReadLen(g) ==
    /\ pc[g] = "len"
    /\ \E n \in RacyLen : frame' = [frame EXCEPT ![g].total = n]
    /\ pc' = [pc EXCEPT ![g] = "return"]
    /\ UNCHANGED <<detectorVars, arg, ret, mu>>

(* GetMetrics returns its map *)
Return(g) ==
    /\ pc[g] = "return"
    /\ pc' = [pc EXCEPT ![g] = "idle"]
    /\ frame' = [frame EXCEPT ![g] = IdleFrame]
    /\ UNCHANGED <<detectorVars, arg, ret, mu>>

InitLock ==
    /\ config = ZeroConfig
    /\ rules = DefaultRules
    /\ accounts = EmptyMap
    /\ lastLocations = EmptyMap
    /\ now = 0
    /\ last = Call("NewDetector", NilTx, "", NoTrace)
    /\ res = NoResult
    /\ calls = 0
    /\ NoGoroutines
    /\ arg = 0
    /\ ret = 0

NextLock ==
    \E g \in Goroutines :
        \/ BeginAnalyze(g)
        \/ BeginAddRule(g)
        \/ BeginRemoveRule(g)
        \/ BeginGetMetrics(g)
        \/ RLock(g)
        \/ RangeRules(g)
        \/ Evaluate(g)
        \/ RUnlock(g)
        \/ Lock(g)
        \/ Locked(g)
        \/ Write(g)
        \/ Unlock(g)
        \/ ReadLen(g)
        \/ Return(g)

SpecLock == InitLock /\ [][NextLock]_vars

-----------------------------------------------------------------------------

(* The FraudDetector facade (fraud_detector_interface.go) over its Detector *)

(* The configuration NewFraudDetector builds: time.Hour is one clock unit. *)
NewFraudDetector ==
    [MaxVelocity |-> 5, VelocityWindow |-> 1, HighRiskThreshold |-> F(600),
     BlockThreshold |-> F(800), MLEnabled |-> TRUE]

(* AddCustomRule: fd.detector.AddRule(rule), of a custom rule or of a copy  *)
(* of a default one.                                                        *)
AddCustomRule ==
    /\ Len(rules) < MaxRules
    /\ AddRuleFrom(ExtraRules \cup {DefaultRules[i] : i \in 1..Len(DefaultRules)})

(* GetActiveRules: return DefaultRules() *)
GetActiveRules ==
    /\ res' = [score |-> NilScore, err |-> "", panic |-> FALSE,
               active |-> DefaultRules]
    /\ last' = Call("GetActiveRules", NilTx, "", NoTrace)
    /\ UNCHANGED <<rules, accounts, lastLocations, config, now, calls, arg, ret, lockVars>>

(* GetStatistics: return fd.detector.GetMetrics() *)
GetStatistics ==
    /\ res' = MetricsResult(Metrics(rules, config))
    /\ last' = Call("GetStatistics", NilTx, "", NoTrace)
    /\ UNCHANGED <<rules, accounts, lastLocations, config, now, calls, arg, ret, lockVars>>

InitFacade ==
    /\ config = NewFraudDetector
    /\ rules = DefaultRules
    /\ accounts = EmptyMap
    /\ lastLocations = EmptyMap
    /\ now = 0
    /\ last = Call("NewFraudDetector", NilTx, "", NoTrace)
    /\ res = NoResult
    /\ calls = 0
    /\ NoGoroutines
    /\ arg = 0
    /\ ret = 0

NextFacade == AddCustomRule \/ GetActiveRules \/ GetStatistics

SpecFacade == InitFacade /\ [][NextFacade]_vars

-----------------------------------------------------------------------------

(* The VelocityTracker and the GeoAnalyzer called directly, as their tests  *)
(* do.  The arguments of a call are carried in a Transaction: its           *)
(* AccountID, and its Timestamp (Track) or Location (UpdateLocation).       *)
(* GetMetrics of the Detector that owns them is among the calls.            *)

MaxTracks == 3

(* Track's arguments: an account and a Timestamp. *)
PartTransactions(t) ==
    {tx \in Transactions(t) : tx.Amount = 10000 /\ tx.Location = "NYC"}

(* The arguments of the other calls: an account, and a location. *)
PartAccounts(locs) ==
    {tx \in Transactions(0) :
        tx.Amount = 10000 /\ tx.Timestamp = ZeroTime /\ tx.Location \in locs}

(* A nil *Location, or the stored one. *)
GetLastLocation(locs, accountID) ==
    IF accountID \in DOMAIN locs
    THEN [nil |-> FALSE, location |-> locs[accountID].location]
    ELSE [nil |-> TRUE]

(* The stored observation time, or time.Time{}. *)
GetLastTime(locs, accountID) ==
    IF accountID \in DOMAIN locs THEN locs[accountID].time ELSE ZeroTime

Answer(op, tx, t, value) ==
    /\ last' = Call(op, tx, "", Trace(0, t, t, F(0), F(0), FALSE))
    /\ res' = [score |-> NilScore, err |-> "", panic |-> FALSE, value |-> value]
    /\ UNCHANGED <<rules, config, now, arg, ret, lockVars>>

TrackCall ==
    /\ calls < MaxTracks
    /\ calls' = calls + 1
    /\ \E tx \in PartTransactions(now) :
         /\ accounts' = Track(accounts, config.VelocityWindow, tx, now)
         /\ Answer("Track", tx, now, 0)
    /\ UNCHANGED lastLocations

(* GetCount dropping the expired timestamps from the stored list as it      *)
(* counts.                                                                  *)
GetCountCall_Pruning ==
    /\ \E tx \in PartAccounts({"NYC"}) :
         /\ Answer("GetCount", tx, now,
                   GetCount(accounts, config.VelocityWindow, tx.AccountID, now))
         /\ accounts' = [a \in DOMAIN accounts |->
                           IF a = tx.AccountID
                           THEN Filter(accounts[a], now - config.VelocityWindow)
                           ELSE accounts[a]]
    /\ UNCHANGED <<lastLocations, calls>>

GetCountCall ==
    /\ \E tx \in PartAccounts({"NYC"}) :
         Answer("GetCount", tx, now,
                GetCount(accounts, config.VelocityWindow, tx.AccountID, now))
    /\ UNCHANGED <<accounts, lastLocations, calls>>

UpdateLocationCall ==
    /\ \E tx \in PartAccounts(Locations) :
         /\ lastLocations' = UpdateLocation(lastLocations, tx.AccountID,
                                            tx.Location, now)
         /\ Answer("UpdateLocation", tx, now, 0)
    /\ UNCHANGED <<accounts, calls>>

GetLastLocationCall ==
    /\ \E tx \in PartAccounts({"NYC"}) :
         Answer("GetLastLocation", tx, now,
                GetLastLocation(lastLocations, tx.AccountID))
    /\ UNCHANGED <<accounts, lastLocations, calls>>

GetLastTimeCall ==
    /\ \E tx \in PartAccounts({"NYC"}) :
         Answer("GetLastTime", tx, now, GetLastTime(lastLocations, tx.AccountID))
    /\ UNCHANGED <<accounts, lastLocations, calls>>

NextParts ==
    \/ TrackCall
    \/ GetCountCall
    \/ UpdateLocationCall
    \/ GetLastLocationCall
    \/ GetLastTimeCall
    \/ GetMetrics
    \/ Tick

SpecParts == Init /\ [][NextParts]_vars

-----------------------------------------------------------------------------

(* The stages of Analyze as pure functions of a configuration, a rule       *)
(* collection and a transaction: applyRules, PatternMatcher.Match, and      *)
(* Analyze on a detector that has seen no transaction                       *)

(* Amounts on both sides of 1000 and of 10000, with and without cents;      *)
(* timestamps at 01:00, 02:00, 05:00 and 06:00.                             *)
StageTransactions ==
    [nil : {FALSE}, AccountID : {"ACC-A"},
     Amount : {50000, 99999, 100000, 100050, 100100, 1000000, 1000001, 1500000},
     MerchantID : {"M1", "NEW"}, Location : {"NYC"}, Timestamp : {0, 1, 4, 5},
     Type : Types, DeviceID : Devices, IPAddress : Addresses]

(* The default collection, and every collection of at most two rules that   *)
(* RemoveRule and AddRule make of it.                                       *)
StageRules ==
    LET pool == ExtraRules \cup {DefaultRules[i] : i \in 1..Len(DefaultRules)}
    IN  {DefaultRules} \cup UNION {[1..n -> pool] : n \in 0..2}

InitStages ==
    /\ config = ZeroConfig
    /\ rules = DefaultRules
    /\ accounts = EmptyMap
    /\ lastLocations = EmptyMap
    /\ now = 5
    /\ last = Call("NewDetector", NilTx, "", NoTrace)
    /\ res = NoResult
    /\ calls = 0
    /\ NoGoroutines
    /\ arg \in [cfg : Configs, rs : StageRules, tx : StageTransactions]
    /\ ret = NilScore

Stage(op, out) ==
    /\ ret = NilScore
    /\ ret' = [op |-> op, out |-> out]
    /\ UNCHANGED <<detectorVars, lockVars, arg>>

StageRulesOnly == Stage("applyRules", applyRules(arg.rs, arg.tx))

StagePatterns == Stage("Match", Match(arg.tx))

StageAnalyze ==
    Stage("Analyze", AnalyzeTx(arg.cfg, arg.rs, EmptyMap, EmptyMap, arg.tx,
                               now, now, now, now).result)

NextStages == StageRulesOnly \/ StagePatterns \/ StageAnalyze

SpecStages == InitStages /\ [][NextStages]_vars

-----------------------------------------------------------------------------

(* The combined-indicators scenario of detector_edge_cases_test.go: a       *)
(* detector with MaxVelocity 2, a history of three transactions of one      *)
(* account at one location, then one transaction carrying every indicator.  *)
(* The clock counts whole hours, so a Timestamp is within a one-minute      *)
(* window of the clock exactly when it is within a window of one unit.      *)

InitScenario ==
    /\ config \in [MaxVelocity : {2}, VelocityWindow : {1},
                   HighRiskThreshold : {F(600)}, BlockThreshold : {F(800)},
                   MLEnabled : BOOLEAN]
    /\ rules = DefaultRules
    /\ accounts = EmptyMap
    /\ lastLocations = EmptyMap
    /\ now = 0
    /\ last = Call("NewDetector", NilTx, "", NoTrace)
    /\ res = NoResult
    /\ calls = 0
    /\ NoGoroutines
    /\ arg = NilScore
    /\ ret = NilScore

(* One pass of the loop building the history: Timestamp is time.Now(). *)
History ==
    /\ calls < 3
    /\ \E tx \in [nil : {FALSE}, AccountID : {"ACC-A"}, Amount : {10000, 100000},
                  MerchantID : {"M1", "NEW"}, Location : {"NYC"}, Timestamp : {now},
                  Type : {"PURCHASE"}, DeviceID : {""}, IPAddress : {""}] :
         \E o \in {AnalyzeTx(config, rules, accounts, lastLocations, tx,
                            now, now, now, now)} :
             /\ accounts' = o.accounts
             /\ lastLocations' = o.lastLocations
             /\ res' = o.result
             /\ last' = Call("Analyze", tx, "", o.trace)
    /\ calls' = calls + 1
    /\ UNCHANGED <<rules, config, now, arg, ret, lockVars>>

(* The transaction with the indicators: 100000.00, a Timestamp at 02:00 of  *)
(* the clock's day or of the day before, a wire transfer, from London.      *)
Combined ==
    /\ calls = 3
    /\ \E tx \in [nil : {FALSE}, AccountID : {"ACC-A"}, Amount : {10000000},
                  MerchantID : {"M1", "NEW"}, Location : {"LON"}, Timestamp : {1, -23},
                  Type : {"WIRE_TRANSFER"}, DeviceID : {"DEV-1", ""},
                  IPAddress : {"10.0.0.1", ""}] :
         \E o \in {AnalyzeTx(config, rules, accounts, lastLocations, tx,
                            now, now, now, now)} :
             /\ accounts' = o.accounts
             /\ lastLocations' = o.lastLocations
             /\ res' = o.result
             /\ last' = Call("Analyze", tx, "", o.trace)
    /\ calls' = calls + 1
    /\ UNCHANGED <<rules, config, now, arg, ret, lockVars>>

NextScenario == History \/ Combined \/ Tick

SpecScenario == InitScenario /\ [][NextScenario]_vars

-----------------------------------------------------------------------------

(* CalculateDistance on coordinates *)

(* New York (40.7128, -74.0060), Philadelphia (39.9526, -75.1652), London   *)
(* (51.5074, -0.1278), Sydney (-33.8688, 151.2093), ORIGIN (0, 0), DATELINE *)
(* (0, 180), P6 (6, 0) and its antipode Q6 (-6, 180).                       *)
DistanceLocations == {"NYC", "PHL", "LON", "SYD", "ORIGIN", "DATELINE", "P6", "Q6"}

(* The float64 value of lines 232-246 for each ordered pair, in metres: a   *)
(* is evaluated left to right with math.Sin and math.Cos, and for P6 and Q6  *)
(* it comes to 1.0000000000000002, so that math.Sqrt(1-a) and with it       *)
(* math.Atan2 and the product are NaN.                                      *)
CalculateDistanceAt(loc1, loc2) ==
    CASE <<loc1, loc2>> = <<"NYC", "NYC">> -> F(0)
      [] <<loc1, loc2>> = <<"NYC", "PHL">> -> F(129613)
      [] <<loc1, loc2>> = <<"NYC", "LON">> -> F(5570222)
      [] <<loc1, loc2>> = <<"NYC", "SYD">> -> F(15988756)
      [] <<loc1, loc2>> = <<"NYC", "ORIGIN">> -> F(8667068)
      [] <<loc1, loc2>> = <<"NYC", "DATELINE">> -> F(11348019)
      [] <<loc1, loc2>> = <<"NYC", "P6">> -> F(8226749)
      [] <<loc1, loc2>> = <<"NYC", "Q6">> -> F(11788337)
      [] <<loc1, loc2>> = <<"PHL", "NYC">> -> F(129613)
      [] <<loc1, loc2>> = <<"PHL", "PHL">> -> F(0)
      [] <<loc1, loc2>> = <<"PHL", "LON">> -> F(5699789)
      [] <<loc1, loc2>> = <<"PHL", "SYD">> -> F(15883759)
      [] <<loc1, loc2>> = <<"PHL", "ORIGIN">> -> F(8748945)
      [] <<loc1, loc2>> = <<"PHL", "DATELINE">> -> F(11266142)
      [] <<loc1, loc2>> = <<"PHL", "P6">> -> F(8316538)
      [] <<loc1, loc2>> = <<"PHL", "Q6">> -> F(11698549)
      [] <<loc1, loc2>> = <<"LON", "NYC">> -> F(5570222)
      [] <<loc1, loc2>> = <<"LON", "PHL">> -> F(5699789)
      [] <<loc1, loc2>> = <<"LON", "LON">> -> F(0)
      [] <<loc1, loc2>> = <<"LON", "SYD">> -> F(16993933)
      [] <<loc1, loc2>> = <<"LON", "ORIGIN">> -> F(5727374)
      [] <<loc1, loc2>> = <<"LON", "DATELINE">> -> F(14287713)
      [] <<loc1, loc2>> = <<"LON", "P6">> -> F(5060206)
      [] <<loc1, loc2>> = <<"LON", "Q6">> -> F(14954881)
      [] <<loc1, loc2>> = <<"SYD", "NYC">> -> F(15988756)
      [] <<loc1, loc2>> = <<"SYD", "PHL">> -> F(15883759)
      [] <<loc1, loc2>> = <<"SYD", "LON">> -> F(16993933)
      [] <<loc1, loc2>> = <<"SYD", "SYD">> -> F(0)
      [] <<loc1, loc2>> = <<"SYD", "ORIGIN">> -> F(15199450)
      [] <<loc1, loc2>> = <<"SYD", "DATELINE">> -> F(4815637)
      [] <<loc1, loc2>> = <<"SYD", "P6">> -> F(15727279)
      [] <<loc1, loc2>> = <<"SYD", "Q6">> -> F(4287808)
      [] <<loc1, loc2>> = <<"ORIGIN", "NYC">> -> F(8667068)
      [] <<loc1, loc2>> = <<"ORIGIN", "PHL">> -> F(8748945)
      [] <<loc1, loc2>> = <<"ORIGIN", "LON">> -> F(5727374)
      [] <<loc1, loc2>> = <<"ORIGIN", "SYD">> -> F(15199450)
      [] <<loc1, loc2>> = <<"ORIGIN", "ORIGIN">> -> F(0)
      [] <<loc1, loc2>> = <<"ORIGIN", "DATELINE">> -> F(20015087)
      [] <<loc1, loc2>> = <<"ORIGIN", "P6">> -> F(667170)
      [] <<loc1, loc2>> = <<"ORIGIN", "Q6">> -> F(19347917)
      [] <<loc1, loc2>> = <<"DATELINE", "NYC">> -> F(11348019)
      [] <<loc1, loc2>> = <<"DATELINE", "PHL">> -> F(11266142)
      [] <<loc1, loc2>> = <<"DATELINE", "LON">> -> F(14287713)
      [] <<loc1, loc2>> = <<"DATELINE", "SYD">> -> F(4815637)
      [] <<loc1, loc2>> = <<"DATELINE", "ORIGIN">> -> F(20015087)
      [] <<loc1, loc2>> = <<"DATELINE", "DATELINE">> -> F(0)
      [] <<loc1, loc2>> = <<"DATELINE", "P6">> -> F(19347917)
      [] <<loc1, loc2>> = <<"DATELINE", "Q6">> -> F(667170)
      [] <<loc1, loc2>> = <<"P6", "NYC">> -> F(8226749)
      [] <<loc1, loc2>> = <<"P6", "PHL">> -> F(8316538)
      [] <<loc1, loc2>> = <<"P6", "LON">> -> F(5060206)
      [] <<loc1, loc2>> = <<"P6", "SYD">> -> F(15727279)
      [] <<loc1, loc2>> = <<"P6", "ORIGIN">> -> F(667170)
      [] <<loc1, loc2>> = <<"P6", "DATELINE">> -> F(19347917)
      [] <<loc1, loc2>> = <<"P6", "P6">> -> F(0)
      [] <<loc1, loc2>> = <<"P6", "Q6">> -> NaN
      [] <<loc1, loc2>> = <<"Q6", "NYC">> -> F(11788337)
      [] <<loc1, loc2>> = <<"Q6", "PHL">> -> F(11698549)
      [] <<loc1, loc2>> = <<"Q6", "LON">> -> F(14954881)
      [] <<loc1, loc2>> = <<"Q6", "SYD">> -> F(4287808)
      [] <<loc1, loc2>> = <<"Q6", "ORIGIN">> -> F(19347917)
      [] <<loc1, loc2>> = <<"Q6", "DATELINE">> -> F(667170)
      [] <<loc1, loc2>> = <<"Q6", "P6">> -> NaN
      [] <<loc1, loc2>> = <<"Q6", "Q6">> -> F(0)

InitDistance ==
    /\ config = ZeroConfig
    /\ rules = DefaultRules
    /\ accounts = EmptyMap
    /\ lastLocations = EmptyMap
    /\ now = 0
    /\ last = Call("NewDetector", NilTx, "", NoTrace)
    /\ res = NoResult
    /\ calls = 0
    /\ NoGoroutines
    /\ arg \in [loc1 : DistanceLocations, loc2 : DistanceLocations]
    /\ ret = NilScore

(* CalculateDistance(loc1, loc2), (loc2, loc1) and (loc1, loc1) *)
ApplyDistance ==
    /\ ret = NilScore
    /\ ret' = [there |-> CalculateDistanceAt(arg.loc1, arg.loc2),
               back |-> CalculateDistanceAt(arg.loc2, arg.loc1),
               self |-> CalculateDistanceAt(arg.loc1, arg.loc1)]
    /\ UNCHANGED <<detectorVars, lockVars, arg>>

SpecDistance == InitDistance /\ [][ApplyDistance]_vars

-----------------------------------------------------------------------------

(* Goroutines interleaving on the whole of Analyze and on AddRule,          *)
(* RemoveRule and GetMetrics: the rule lock, the velocity tracker's map      *)
(* lock and account locks, and the geo analyzer's lock.  Every call runs    *)
(* the lock operations and the accesses of its code in order; the clock     *)
(* stands still, so every Timestamp stays within the window.                *)
(* In this specification mu maps each lock to its state, pc is idle,        *)
(* running or panicked, frame holds the locals of the call, ret is the log  *)
(* of the calls that returned, and calls counts the calls begun.            *)

MaxConc == 2

(* The locals of a goroutine outside any call.  i is the position in the    *)
(* code; pos is the length of the account's list after this call's append,  *)
(* count what GetCount returned; locVer, timeVer and upd are the versions   *)
(* of the location record GetLastLocation read (0 for none), GetLastTime    *)
(* read, and UpdateLocation wrote; conc tells that another call for the     *)
(* account was running when this one began.                                 *)
ConcIdle ==
    [op |-> "", tx |-> NilTx, rule |-> NoRule, ruleID |-> "", i |-> 0,
     conc |-> FALSE, pos |-> 0, count |-> 0, first |-> FALSE, loc |-> "",
     time |-> ZeroTime, locVer |-> 0, timeVer |-> 0, upd |-> 0,
     panic |-> FALSE, total |-> 0, err |-> ""]

(* Track with the account's state allocated on every call. *)
FindOrCreate_Always(accts, id) ==
    [a \in DOMAIN accts \cup {id} |-> IF a = id THEN <<>> ELSE accts[a]]

(* Track: if _, exists := v.accounts[id]; !exists { v.accounts[id] = ... } *)
FindOrCreate(accts, id) ==
    [a \in DOMAIN accts \cup {id} |-> IF a \in DOMAIN accts THEN accts[a] ELSE <<>>]

(* Track keeping the map lock until the account's list is written. *)
Code_HoldMapLock(op) ==
    CASE op = "Analyze" ->
           << <<"RLock", "rules", "">>, <<"applyRules", "", "">>,
              <<"RUnlock", "rules", "">>,
              <<"Lock", "vmap", "">>, <<"create", "", "">>,
              <<"Lock", "acct", "">>, <<"append", "", "">>,
              <<"Unlock", "acct", "">>, <<"Unlock", "vmap", "">>,
              <<"RLock", "vmap", "">>, <<"lookup", "", "">>,
              <<"RUnlock", "vmap", "">>,
              <<"Lock", "acct", "">>, <<"count", "", "">>,
              <<"Unlock", "acct", "">>,
              <<"RLock", "geo", "">>, <<"lastLocation", "", "">>,
              <<"RUnlock", "geo", "ifNil">>,
              <<"RLock", "geo", "">>, <<"lastTime", "", "">>,
              <<"RUnlock", "geo", "ifTravel">>,
              <<"Lock", "geo", "">>, <<"update", "", "">>,
              <<"Unlock", "geo", "">>,
              <<"return", "", "">> >>
      [] op = "AddRule" ->
           << <<"Lock", "rules", "">>, <<"addRule", "", "">>,
              <<"Unlock", "rules", "">>, <<"return", "", "">> >>
      [] op = "RemoveRule" ->
           << <<"Lock", "rules", "">>, <<"removeRule", "", "">>,
              <<"Unlock", "rules", "">>, <<"return", "", "">> >>
      [] op = "GetMetrics" ->
           << <<"len", "", "">>, <<"return", "", "">> >>

(* The lock operations and accesses of each call, in program order: the     *)
(* kind of step, the lock it is on, and the branch taken after it.          *)
(* Analyze is applyRules, Track, GetCount, analyzeGeography with            *)
(* GetLastLocation, GetLastTime and UpdateLocation, and the return.         *)
Code(op) ==
    CASE op = "Analyze" ->
           << <<"RLock", "rules", "">>, <<"applyRules", "", "">>,
              <<"RUnlock", "rules", "">>,
              <<"Lock", "vmap", "">>, <<"create", "", "">>,
              <<"Unlock", "vmap", "">>,
              <<"RLock", "vmap", "">>, <<"lookup", "", "">>,
              <<"RUnlock", "vmap", "">>,
              <<"Lock", "acct", "">>, <<"append", "", "">>,
              <<"Unlock", "acct", "">>,
              <<"RLock", "vmap", "">>, <<"lookup", "", "">>,
              <<"RUnlock", "vmap", "">>,
              <<"Lock", "acct", "">>, <<"count", "", "">>,
              <<"Unlock", "acct", "">>,
              <<"RLock", "geo", "">>, <<"lastLocation", "", "">>,
              <<"RUnlock", "geo", "ifNil">>,
              <<"RLock", "geo", "">>, <<"lastTime", "", "">>,
              <<"RUnlock", "geo", "ifTravel">>,
              <<"Lock", "geo", "">>, <<"update", "", "">>,
              <<"Unlock", "geo", "">>,
              <<"return", "", "">> >>
      [] op = "AddRule" ->
           << <<"Lock", "rules", "">>, <<"addRule", "", "">>,
              <<"Unlock", "rules", "">>, <<"return", "", "">> >>
      [] op = "RemoveRule" ->
           << <<"Lock", "rules", "">>, <<"removeRule", "", "">>,
              <<"Unlock", "rules", "">>, <<"return", "", "">> >>
      [] op = "GetMetrics" ->
           << <<"len", "", "">>, <<"return", "", "">> >>

(* The step goroutine g stands at; the lock of an account is named by the   *)
(* account.                                                                 *)
Instr(g) ==
    LET c == Code(frame[g].op)[frame[g].i]
    IN  [kind |-> c[1],
         lock |-> IF c[2] = "acct" THEN frame[g].tx.AccountID ELSE c[2],
         branch |-> c[3]]

(* A goroutine begins a call. *)
Start(g) ==
    /\ pc[g] = "idle"
    /\ calls < MaxConc
    /\ calls' = calls + 1
    /\ pc' = [pc EXCEPT ![g] = "running"]
    /\ \/ \E tx \in [nil : {FALSE}, AccountID : Accounts, Amount : {10000},
                     MerchantID : Merchants, Location : {"NYC", "PHL"},
                     Timestamp : {now}, Type : Types, DeviceID : Devices,
                     IPAddress : Addresses] :
            LET others == {h \in Goroutines : /\ pc[h] = "running"
                                              /\ frame[h].op = "Analyze"
                                              /\ frame[h].tx.AccountID = tx.AccountID}
            IN  frame' = [h \in Goroutines |->
                            IF h = g
                            THEN [ConcIdle EXCEPT !.op = "Analyze", !.tx = tx, !.i = 1,
                                                  !.conc = others # {}]
                            ELSE IF h \in others
                            THEN [frame[h] EXCEPT !.conc = TRUE]
                            ELSE frame[h]]
       \/ \E rule \in {r \in CustomRules : r.Condition = "nil"} :
            frame' = [frame EXCEPT ![g] =
                        [ConcIdle EXCEPT !.op = "AddRule", !.rule = rule, !.i = 1]]
       \/ frame' = [frame EXCEPT ![g] =
                        [ConcIdle EXCEPT !.op = "RemoveRule", !.ruleID = "RULE1", !.i = 1]]
       \/ frame' = [frame EXCEPT ![g] = [ConcIdle EXCEPT !.op = "GetMetrics", !.i = 1]]
    /\ UNCHANGED <<rules, accounts, lastLocations, config, now, last, res,
                   arg, ret, mu>>

(* Lock() is called: the writer waits, and keeps new readers out. *)
Request(g) ==
    /\ pc[g] = "running"
    /\ Instr(g).kind = "Lock"
    /\ g \notin mu[Instr(g).lock].pending
    /\ mu' = [mu EXCEPT ![Instr(g).lock].pending = @ \cup {g}]
    /\ UNCHANGED <<detectorVars, arg, ret, pc, frame>>

(* Lock() or RLock() returns. *)
Acquire(g) ==
    /\ pc[g] = "running"
    /\ LET in == Instr(g)
       IN  \/ /\ in.kind = "Lock"
              /\ g \in mu[in.lock].pending
              /\ CanLock(mu[in.lock])
              /\ mu' = [mu EXCEPT ![in.lock].writer = g, ![in.lock].pending = @ \ {g}]
           \/ /\ in.kind = "RLock"
              /\ CanRLock(mu[in.lock])
              /\ mu' = [mu EXCEPT ![in.lock].readers = @ \cup {g}]
    /\ frame' = [frame EXCEPT ![g].i = @ + 1]
    /\ UNCHANGED <<detectorVars, arg, ret, pc>>

(* The position of the first step of the given kind in the code of op. *)
Position(op, kind) ==
    CHOOSE i \in 1..Len(Code(op)) :
        /\ Code(op)[i][1] = kind
        /\ \A j \in 1..(i - 1) : Code(op)[j][1] # kind

(* Unlock() or RUnlock(), and the branch of the caller after it: a panic    *)
(* in applyRules runs the deferred RUnlock and leaves Analyze; a nil        *)
(* lastLocation goes to UpdateLocation; an impossible travel returns.       *)
Release(g) ==
    /\ pc[g] = "running"
    /\ LET in == Instr(g)
           f == frame[g]
           travel == CalculateDistance(f.loc, f.tx.Location) > (now - f.time) * 900
       IN  /\ in.kind \in {"Unlock", "RUnlock"}
           /\ mu' = [mu EXCEPT ![in.lock].writer = IF in.kind = "Unlock" THEN "" ELSE @,
                               ![in.lock].readers = IF in.kind = "RUnlock" THEN @ \ {g} ELSE @]
           /\ pc' = [pc EXCEPT ![g] = IF f.panic THEN "panicked" ELSE "running"]
           /\ frame' = [frame EXCEPT ![g].i =
                          IF in.branch = "ifNil" /\ f.first
                          THEN Position(f.op, "update") - 1
                          ELSE IF in.branch = "ifTravel" /\ travel
                          THEN Position(f.op, "return")
                          ELSE @ + 1]
    /\ UNCHANGED <<detectorVars, arg, ret>>

(* One access to the detector's state between lock operations. *)
Step(g) ==
    /\ pc[g] = "running"
    /\ LET in == Instr(g)
           f == frame[g]
           id == f.tx.AccountID
           known == id \in DOMAIN lastLocations
       IN  CASE in.kind = "applyRules" ->
                  /\ frame' = [frame EXCEPT ![g].panic = applyRules(rules, f.tx).panic,
                                            ![g].i = @ + 1]
                  /\ UNCHANGED <<rules, accounts, lastLocations>>
             [] in.kind = "create" ->
                  /\ accounts' = FindOrCreate(accounts, id)
                  /\ frame' = [frame EXCEPT ![g].i = @ + 1]
                  /\ UNCHANGED <<rules, lastLocations>>
             [] in.kind = "lookup" ->
                  /\ frame' = [frame EXCEPT ![g].i = @ + 1]
                  /\ UNCHANGED <<rules, accounts, lastLocations>>
             [] in.kind = "append" ->
                  /\ \E tracked \in {Track(accounts, config.VelocityWindow, f.tx, now)} :
                       /\ accounts' = tracked
                       /\ frame' = [frame EXCEPT ![g].pos = Len(tracked[id]),
                                                 ![g].i = @ + 1]
                  /\ UNCHANGED <<rules, lastLocations>>
             [] in.kind = "count" ->
                  /\ frame' = [frame EXCEPT
                                 ![g].count = GetCount(accounts, config.VelocityWindow, id, now),
                                 ![g].i = @ + 1]
                  /\ UNCHANGED <<rules, accounts, lastLocations>>
             [] in.kind = "lastLocation" ->
                  /\ frame' = [frame EXCEPT
                                 ![g].first = ~known,
                                 ![g].loc = IF known THEN lastLocations[id].location ELSE "",
                                 ![g].locVer = IF known THEN lastLocations[id].ver ELSE 0,
                                 ![g].i = @ + 1]
                  /\ UNCHANGED <<rules, accounts, lastLocations>>
             [] in.kind = "lastTime" ->
                  /\ frame' = [frame EXCEPT
                                 ![g].time = IF known THEN lastLocations[id].time ELSE ZeroTime,
                                 ![g].timeVer = IF known THEN lastLocations[id].ver ELSE 0,
                                 ![g].i = @ + 1]
                  /\ UNCHANGED <<rules, accounts, lastLocations>>
             [] in.kind = "update" ->
                  /\ \E v \in {IF known THEN lastLocations[id].ver + 1 ELSE 1} :
                       /\ lastLocations' =
                            [a \in DOMAIN lastLocations \cup {id} |->
                                IF a = id
                                THEN [location |-> f.tx.Location, time |-> now, ver |-> v]
                                ELSE lastLocations[a]]
                       /\ frame' = [frame EXCEPT ![g].upd = v, ![g].i = @ + 1]
                  /\ UNCHANGED <<rules, accounts>>
             [] in.kind = "addRule" ->
                  /\ rules' = Append(rules, f.rule)
                  /\ frame' = [frame EXCEPT ![g].i = @ + 1]
                  /\ UNCHANGED <<accounts, lastLocations>>
             [] in.kind = "removeRule" ->
                  /\ \E o \in {RemoveRuleOf(rules, f.ruleID)} :
                       /\ rules' = o.rules
                       /\ frame' = [frame EXCEPT ![g].err = o.result.err, ![g].i = @ + 1]
                  /\ UNCHANGED <<accounts, lastLocations>>
             [] in.kind = "len" ->
                  /\ frame' = [frame EXCEPT ![g].total = Len(rules), ![g].i = @ + 1]
                  /\ UNCHANGED <<rules, accounts, lastLocations>>
             [] OTHER -> FALSE
    /\ UNCHANGED <<config, now, last, res, calls, arg, ret, mu, pc>>

(* The call returns; its locals go to the log. *)
Finish(g) ==
    /\ pc[g] = "running"
    /\ Instr(g).kind = "return"
    /\ ret' = Append(ret, frame[g])
    /\ pc' = [pc EXCEPT ![g] = "idle"]
    /\ frame' = [frame EXCEPT ![g] = ConcIdle]
    /\ UNCHANGED <<detectorVars, arg, mu>>

InitConc ==
    /\ config = [MaxVelocity |-> 1, VelocityWindow |-> 1, HighRiskThreshold |-> F(600),
                 BlockThreshold |-> F(800), MLEnabled |-> FALSE]
    /\ rules = DefaultRules
    /\ accounts = EmptyMap
    /\ lastLocations = EmptyMap
    /\ now = 0
    /\ last = Call("NewDetector", NilTx, "", NoTrace)
    /\ res = NoResult
    /\ calls = 0
    /\ mu = [l \in {"rules", "vmap", "geo"} \cup Accounts |-> Unlocked]
    /\ pc = [g \in Goroutines |-> "idle"]
    /\ frame = [g \in Goroutines |-> ConcIdle]
    /\ arg = 0
    /\ ret = <<>>

NextConc ==
    \E g \in {"g1", "g2"} :
        \/ Start(g)
        \/ Request(g)
        \/ Acquire(g)
        \/ Release(g)
        \/ Step(g)
        \/ Finish(g)

SpecConc == InitConc /\ [][NextConc]_vars

(* The scheduler runs every goroutine that can take a step. *)
FairSpecConc ==
    SpecConc /\ \A g \in {"g1", "g2"} :
        WF_vars(Request(g) \/ Acquire(g) \/ Release(g) \/ Step(g) \/ Finish(g))

-----------------------------------------------------------------------------

(* Properties *)

Analyzed == last.op = "Analyze" /\ ~last.tx.nil

Returned == Analyzed /\ ~res.panic /\ ~res.score.nil

Range(seq) == {seq[i] : i \in 1..Len(seq)}

VelocityText == "High transaction velocity"

TravelText == "Impossible travel detected"

NumReasons(reasons, text) ==
    Cardinality({i \in 1..Len(reasons) : reasons[i].text = text})

(* C1: the Score of every FraudScore returned by Analyze on a non-nil      *)
(* transaction lies in [0,1], for every configuration and every rule        *)
(* collection reachable through AddRule and RemoveRule.                     *)
C1_ScoreInUnitInterval ==
    Returned => FGe(res.score.Score, F(0)) /\ FLe(res.score.Score, F(1000))

(* C2: Analyze of a nil transaction returns no FraudScore and the error     *)
(* 'transaction is nil', and leaves the rule collection, the velocity       *)
(* timestamp lists and the stored locations as they were.                   *)
C2_NilRejectedUntouched ==
    [][(last'.op = "Analyze" /\ last'.tx.nil)
         => /\ res'.score = NilScore
            /\ res'.err = "transaction is nil"
            /\ ~res'.panic
            /\ rules' = rules
            /\ accounts' = accounts
            /\ lastLocations' = lastLocations]_vars

C2_Witness ==
    /\ last.op = "Analyze" /\ last.tx.nil
    /\ res.err = "transaction is nil"
    /\ Len(rules) > Len(DefaultRules)
    /\ DOMAIN accounts # {}
    /\ DOMAIN lastLocations # {}

(* C3: after any sequence of AddRule and RemoveRule calls, Analyze of a     *)
(* non-nil transaction returns a populated FraudScore and no error; a       *)
(* failing rule predicate does not abort the evaluation.                    *)
C3_AnalyzeAlwaysReturns ==
    Analyzed => ~res.panic /\ ~res.score.nil /\ res.err = ""

(* C4: the Risk of every returned FraudScore is CRITICAL iff Score >= 0.8,  *)
(* HIGH iff 0.6 <= Score < 0.8, MEDIUM iff 0.4 <= Score < 0.6, LOW iff      *)
(* 0.2 <= Score < 0.4 and MINIMAL iff Score < 0.2.                          *)
C4_RiskTierOfScore ==
    Returned =>
        LET s == res.score.Score
            r == res.score.Risk
        IN  /\ r = "CRITICAL" <=> FGe(s, F(800))
            /\ r = "HIGH" <=> (FGe(s, F(600)) /\ FLt(s, F(800)))
            /\ r = "MEDIUM" <=> (FGe(s, F(400)) /\ FLt(s, F(600)))
            /\ r = "LOW" <=> (FGe(s, F(200)) /\ FLt(s, F(400)))
            /\ r = "MINIMAL" <=> FLt(s, F(200))

Rank(tier) ==
    CASE tier = "MINIMAL" -> 0
      [] tier = "LOW" -> 1
      [] tier = "MEDIUM" -> 2
      [] tier = "HIGH" -> 3
      [] tier = "CRITICAL" -> 4

(* C5: the risk tier is monotonic in the score: for scores s1 <= s2 the     *)
(* tier of s2 is never below the tier of s1 in the order                    *)
(* MINIMAL < LOW < MEDIUM < HIGH < CRITICAL.                                *)
C5_TierMonotonic ==
    (ret # <<"", "">> /\ FLe(arg[1], arg[2])) => Rank(ret[1]) <= Rank(ret[2])

C5_Witness ==
    /\ ret # <<"", "">>
    /\ FLt(arg[1], arg[2])
    /\ Rank(ret[1]) < Rank(ret[2])

(* C6: ShouldBlock of every returned FraudScore is true iff the clamped     *)
(* Score >= BlockThreshold; so with BlockThreshold 0.8 a result is blocked  *)
(* exactly when its tier is CRITICAL, and with the zero-value config every  *)
(* result is blocked.                                                       *)
C6_BlockIffAtThreshold ==
    Returned =>
        /\ res.score.ShouldBlock <=> FGe(res.score.Score, config.BlockThreshold)
        /\ config.BlockThreshold = F(800)
             => (res.score.ShouldBlock <=> res.score.Risk = "CRITICAL")
        /\ config = ZeroConfig => res.score.ShouldBlock

(* C7: on a fresh detector, in a run of Analyze calls for one account whose *)
(* transactions all fall within the velocity window, the Nth call adds the  *)
(* velocity penalty 0.3 and the reason 'High transaction velocity' with the *)
(* count N if N > MaxVelocity, and no velocity penalty or reason otherwise. *)
InWindowRun ==
    /\ Returned
    /\ DOMAIN accounts = {last.tx.AccountID}
    /\ Len(accounts[last.tx.AccountID]) = calls
    /\ \A t \in Range(accounts[last.tx.AccountID]) :
          After(t, last.trace.tCount - config.VelocityWindow)

C7_VelocityPenaltyAtNth ==
    InWindowRun =>
        IF calls > config.MaxVelocity
        THEN /\ last.trace.vScore = F(300)
             /\ Reason(VelocityText, calls, 0) \in Range(res.score.Reasons)
             /\ NumReasons(res.score.Reasons, VelocityText) = 1
        ELSE /\ last.trace.vScore = F(0)
             /\ NumReasons(res.score.Reasons, VelocityText) = 0

C7_Witness ==
    /\ InWindowRun
    /\ calls > config.MaxVelocity
    /\ config.MaxVelocity > 0
    /\ Reason(VelocityText, calls, 0) \in Range(res.score.Reasons)

(* C8: in every Analyze call on a non-nil transaction the count compared    *)
(* with MaxVelocity includes the transaction being analysed: it is at       *)
(* least 1, for every value of the transaction's Timestamp.                 *)
C8_CountIncludesCurrent ==
    Returned => last.trace.count >= 1

(* C9: the first Analyze call for an account with no stored location adds   *)
(* no impossible-travel penalty or reason, whatever the location, and       *)
(* stores the transaction's location as the account's last location.        *)
C9_FirstCallNoTravel ==
    [][(last'.op = "Analyze" /\ ~last'.tx.nil /\ ~res'.panic
        /\ last'.tx.AccountID \notin DOMAIN lastLocations)
         => /\ last'.trace.gScore = F(0)
            /\ NumReasons(res'.score.Reasons, TravelText) = 0
            /\ last'.tx.AccountID \in DOMAIN lastLocations'
            /\ lastLocations'[last'.tx.AccountID].location = last'.tx.Location]_vars

C9_Witness ==
    /\ Returned
    /\ last.trace.first
    /\ calls > 1
    /\ last.tx.Location = "PHL"
    /\ lastLocations[last.tx.AccountID].location = "PHL"

(* C10: for an account whose stored location is L observed at T, an        *)
(* Analyze call reading the clock at t adds the penalty 0.5 and one         *)
(* 'Impossible travel detected' reason iff                                  *)
(* distance(L, tx.Location) > (t - T in hours) * 900; the transaction's     *)
(* Timestamp plays no part.                                                 *)
C10_TravelIffTooFar ==
    [][(last'.op = "Analyze" /\ ~last'.tx.nil /\ ~res'.panic
        /\ last'.tx.AccountID \in DOMAIN lastLocations)
         => LET stored == lastLocations[last'.tx.AccountID]
                tooFar == CalculateDistance(stored.location, last'.tx.Location)
                            > (last'.trace.tGeo - stored.time) * 900
            IN  IF tooFar
                THEN /\ last'.trace.gScore = F(500)
                     /\ NumReasons(res'.score.Reasons, TravelText) = 1
                ELSE /\ last'.trace.gScore = F(0)
                     /\ NumReasons(res'.score.Reasons, TravelText) = 0]_vars

C10_Witness ==
    /\ Returned
    /\ ~last.trace.first
    /\ last.trace.gScore = F(500)
    /\ last.tx.Timestamp = ZeroTime
    /\ NumReasons(res.score.Reasons, TravelText) = 1

(* C11: after every Analyze call on a non-nil transaction, whether or not   *)
(* impossible travel was detected, the account's stored last location is    *)
(* the transaction's location and its observation time is the time of that  *)
(* call.                                                                    *)
C11_LocationAlwaysUpdated ==
    Returned =>
        /\ last.tx.AccountID \in DOMAIN lastLocations
        /\ lastLocations[last.tx.AccountID].location = last.tx.Location
        /\ lastLocations[last.tx.AccountID].time = last.trace.tGeo

(* C12: with predictive scoring enabled the score before the clamp is the   *)
(* average (S + m) / 2 of the summed rule, velocity, geo and pattern        *)
(* contributions S and the model score m, not their sum, and Confidence is  *)
(* the model's confidence as returned; with it disabled the score is S      *)
(* clamped and Confidence stays 0.                                          *)
C12_BlendIsAverage ==
    ret # NilScore =>
        LET S == arg.running
            m == Predict(arg.tx)
        IN  IF arg.cfg.MLEnabled
            THEN /\ S.k = "fin" =>
                        ret.pre.k = "fin" /\ 2 * ret.pre.v = S.v + m.score.v
                 /\ S.k # "fin" => ret.pre = S
                 /\ ret.Confidence = m.confidence
                 /\ ret.Score = Clamp(ret.pre)
            ELSE /\ ret.pre = S
                 /\ ret.Score = Clamp(S)
                 /\ ret.Confidence = F(0)

C12_Witness ==
    /\ ret # NilScore
    /\ arg.cfg.MLEnabled
    /\ arg.running = F(500)
    /\ Predict(arg.tx).score = F(650)
    /\ ret.pre = F(575)
    /\ ret.Confidence = F(650)

HasRule(rs, ruleID) == \E i \in 1..Len(rs) : rs[i].ID = ruleID

(* C14: RemoveRule with an identifier no rule carries returns an error      *)
(* saying 'rule not found' and leaves the collection, its members, their    *)
(* order and their number, as it was.                                       *)
C14_RemoveUnknownFails ==
    [][(last'.op = "RemoveRule" /\ ~HasRule(rules, last'.ruleID))
         => /\ res'.err = "rule not found"
            /\ rules' = rules]_vars

C14_Witness ==
    /\ last.op = "RemoveRule"
    /\ last.ruleID = "NON_EXISTENT"
    /\ res.err = "rule not found"
    /\ Len(rules) = 4
    /\ rules[4].ID = "HIGH_AMOUNT"

(* C15: RemoveRule with an identifier at least one rule carries returns no  *)
(* error and removes exactly one rule, the first in collection order with   *)
(* that identifier; the other rules keep their relative order, whether the  *)
(* removed rule was first, in the middle or last.                           *)
C15_RemoveFirstMatch ==
    [][(last'.op = "RemoveRule" /\ HasRule(rules, last'.ruleID))
         => /\ res'.err = ""
            /\ Len(rules') = Len(rules) - 1
            /\ \E i \in 1..Len(rules) :
                 /\ rules[i].ID = last'.ruleID
                 /\ \A j \in 1..(i - 1) :
                      rules[j].ID # last'.ruleID /\ rules'[j] = rules[j]
                 /\ \A j \in i..Len(rules') : rules'[j] = rules[j + 1]]_vars

C15_Witness ==
    /\ last.op = "RemoveRule"
    /\ last.ruleID = "HIGH_AMOUNT"
    /\ res.err = ""
    /\ Len(rules) = 4
    /\ rules[1].ID = "UNUSUAL_TIME"
    /\ rules[3].ID = "HIGH_AMOUNT"
    /\ rules[4].ID = "RULE1"

(* C16: a successful RemoveRule(id) followed immediately by a second        *)
(* RemoveRule(id) makes the second call fail with 'rule not found', for     *)
(* every reachable collection and every identifier.                          *)
C16_SecondRemoveFails ==
    [][(/\ last.op = "RemoveRule" /\ res.err = ""
        /\ last'.op = "RemoveRule" /\ last'.ruleID = last.ruleID)
         => res'.err = "rule not found"]_vars

(* C17: AddRule(r) followed by RemoveRule(r.ID) succeeds and leaves as many  *)
(* rules as there were before the AddRule: the AddRule adds one rule and    *)
(* the RemoveRule takes one away.                                            *)
C17_AddThenRemoveKeepsCount ==
    [][/\ last'.op = "AddRule" => Len(rules') = Len(rules) + 1
       /\ (/\ last.op = "AddRule"
           /\ last'.op = "RemoveRule" /\ last'.ruleID = last.ruleID)
            => res'.err = "" /\ Len(rules') = Len(rules) - 1]_vars

C17_Witness ==
    /\ last.op = "RemoveRule"
    /\ last.ruleID = "HIGH_AMOUNT"
    /\ res.err = ""
    /\ Len(rules) = Len(DefaultRules)
    /\ rules[1].ID = "UNUSUAL_TIME"
    /\ rules[3].ID = "HIGH_AMOUNT"

(* C18: rule identifiers are unique: in every collection reachable from the *)
(* default rules through AddRule and RemoveRule no two rules carry the same *)
(* identifier.                                                               *)
C18_UniqueIdentifiers ==
    \A i, j \in 1..Len(rules) : rules[i].ID = rules[j].ID => i = j

InRuleStage(g) == pc[g] \in {"loop", "RUnlock"}

(* C19: AddRule and RemoveRule may run concurrently with in-flight Analyze  *)
(* calls: the rule stage of each Analyze evaluates the rule collection as   *)
(* it stood at one single instant (when its loop began), rule for rule,     *)
(* and never a collection modified part-way through.                        *)
C19_RuleStageSeesOneInstant ==
    \A g \in Goroutines :
        InRuleStage(g) =>
            /\ rules = frame[g].snap
            /\ Len(frame[g].seen) <= Len(frame[g].snap)
            /\ frame[g].seen = SubSeq(frame[g].snap, 1, Len(frame[g].seen))
            /\ pc[g] = "RUnlock" => frame[g].seen = frame[g].snap

C19_Witness ==
    \E g, w \in Goroutines :
        /\ pc[g] = "RUnlock"
        /\ frame[g].seen = frame[g].snap
        /\ Len(frame[g].seen) = Len(DefaultRules) - 1
        /\ pc[w] = "Locking"
        /\ frame[w].op = "AddRule"

(* C20: writers exclude every other access: while an AddRule or RemoveRule  *)
(* is modifying the rule collection no other goroutine reads it (the rule   *)
(* stage of Analyze, the rule count of GetMetrics) or modifies it.          *)
C20_WritersExclusive ==
    \A w, g \in Goroutines :
        (pc[w] = "write" /\ g # w) =>
            pc[g] \notin {"range", "loop", "len", "write"}

(* C21: after any sequential series of AddRule, RemoveRule and Analyze      *)
(* calls GetMetrics reports as total_rules the current number of rules,     *)
(* which starts at the default count, grows by one with every AddRule,      *)
(* shrinks by one with every successful RemoveRule and is otherwise         *)
(* unchanged, and reports velocity_window, high_risk_threshold and          *)
(* ml_enabled as supplied at construction: no call changes the config.      *)
C21_MetricsReportCurrentState ==
    [][/\ config' = config
       /\ last'.op = "AddRule" => Len(rules') = Len(rules) + 1
       /\ (last'.op = "RemoveRule" /\ res'.err = "") => Len(rules') = Len(rules) - 1
       /\ (last'.op = "RemoveRule" /\ res'.err # "") => Len(rules') = Len(rules)
       /\ last'.op \in {"Analyze", "GetMetrics", "Tick"} => rules' = rules
       /\ last'.op = "GetMetrics" =>
            /\ res'.metrics.total_rules = Len(rules')
            /\ res'.metrics.velocity_window = config.VelocityWindow
            /\ res'.metrics.high_risk_threshold = config.HighRiskThreshold
            /\ res'.metrics.ml_enabled = config.MLEnabled]_vars

C21_Witness ==
    /\ last.op = "GetMetrics"
    /\ res.metrics.total_rules = Len(DefaultRules) - 1
    /\ res.metrics.ml_enabled
    /\ res.metrics.velocity_window = 1
    /\ calls > 0

(* C22: GetActiveRules of the facade returns the detector's currently       *)
(* active rules: every rule of the collection, the custom rules added       *)
(* through AddCustomRule among them, and as many rules as the total_rules   *)
(* of GetStatistics, which is the length of the collection.                 *)
C22_ActiveRulesAreCurrent ==
    last.op = "GetActiveRules" =>
        /\ Range(rules) \subseteq Range(res.active)
        /\ Len(res.active) = Metrics(rules, config).total_rules

(* C23: GetCount(account) called at wall-clock time t returns the number of *)
(* timestamps stored for the account that are strictly later than t minus   *)
(* the window, whether or not older ones are still stored, and 0 without    *)
(* error for an account never tracked.                                      *)
C23_CountWithinWindow ==
    last.op = "GetCount" =>
        LET id == last.tx.AccountID
            cutoff == last.trace.tCount - config.VelocityWindow
        IN  /\ res.err = "" /\ ~res.panic
            /\ id \notin DOMAIN accounts => res.value = 0
            /\ id \in DOMAIN accounts =>
                 res.value = Cardinality({i \in 1..Len(accounts[id]) :
                                            accounts[id][i] > cutoff})

C23_Witness ==
    /\ last.op = "GetCount"
    /\ last.tx.AccountID \in DOMAIN accounts
    /\ res.value = 0
    /\ Len(accounts[last.tx.AccountID]) = 3
    /\ accounts[last.tx.AccountID][1] = 0
    /\ last.trace.tCount = 1
    /\ "ACC-B" \notin DOMAIN accounts

(* The index in ts of the k-th timestamp later than cutoff. *)
KthKept(ts, cutoff, k) ==
    CHOOSE i \in 1..Len(ts) :
        /\ ts[i] > cutoff
        /\ Cardinality({j \in 1..i : ts[j] > cutoff}) = k

(* C24: Track(tx) called at wall-clock time t replaces the account's list   *)
(* by the stored timestamps strictly later than t minus the window, in      *)
(* their previous order, followed by tx.Timestamp as the last element; the  *)
(* pruning goes by the wall clock, not by tx.Timestamp, and tx.Timestamp is *)
(* appended even when it is itself older than the window.                   *)
C24_TrackPrunesThenAppends ==
    [][last'.op = "Track" =>
         LET id == last'.tx.AccountID
             old == IF id \in DOMAIN accounts THEN accounts[id] ELSE <<>>
             new == accounts'[id]
             cutoff == last'.trace.tCount - config.VelocityWindow
             kept == Cardinality({i \in 1..Len(old) : old[i] > cutoff})
         IN  /\ last'.trace.tCount = now
             /\ DOMAIN accounts' = DOMAIN accounts \cup {id}
             /\ \A a \in DOMAIN accounts \ {id} : accounts'[a] = accounts[a]
             /\ Len(new) = kept + 1
             /\ new[Len(new)] = last'.tx.Timestamp
             /\ \A k \in 1..kept : new[k] = old[KthKept(old, cutoff, k)]]_vars

C24_Witness ==
    /\ last.op = "Track"
    /\ last.tx.Timestamp = ZeroTime
    /\ last.trace.tCount = 1
    /\ accounts[last.tx.AccountID] = <<1, ZeroTime>>
    /\ calls = 3

(* C25: the geo analyzer keeps one record per account: UpdateLocation       *)
(* overwrites the account's record with the given location and the time of  *)
(* the call and touches no other record, nothing else writes a record, and  *)
(* so GetLastLocation returns the location of the account's most recent     *)
(* UpdateLocation; for an account never updated GetLastLocation returns     *)
(* nil and GetLastTime the zero instant.                                    *)
C25_OneLocationPerAccount ==
    [][LET id == last'.tx.AccountID
       IN  /\ last'.op = "UpdateLocation" =>
                /\ DOMAIN lastLocations' = DOMAIN lastLocations \cup {id}
                /\ lastLocations'[id] = [location |-> last'.tx.Location,
                                         time |-> now]
                /\ \A a \in DOMAIN lastLocations \ {id} :
                     lastLocations'[a] = lastLocations[a]
           /\ last'.op # "UpdateLocation" => lastLocations' = lastLocations
           /\ last'.op = "GetLastLocation" =>
                IF id \in DOMAIN lastLocations
                THEN /\ ~res'.value.nil
                     /\ res'.value.location = lastLocations[id].location
                ELSE res'.value.nil
           /\ last'.op = "GetLastTime" =>
                IF id \in DOMAIN lastLocations
                THEN res'.value = lastLocations[id].time
                ELSE res'.value = ZeroTime]_vars

C25_Witness ==
    /\ last.op = "GetLastLocation"
    /\ last.tx.AccountID = "ACC-A"
    /\ ~res.value.nil
    /\ res.value.location = "PHL"
    /\ DOMAIN lastLocations = Accounts
    /\ lastLocations["ACC-A"].time = 1
    /\ lastLocations["ACC-B"] = [location |-> "NYC", time |-> 0]

RoundText == "Suspicious round amount"

(* C26: PatternMatcher.Match reports the 'Suspicious round amount' reason,  *)
(* once and with weight 0.1, iff the amount has no fractional part and is   *)
(* strictly greater than 1000; exactly 1000, a smaller round amount and a   *)
(* non-integral amount yield no such reason and no weight.                  *)
C26_RoundAmountPattern ==
    (ret # NilScore /\ ret.op = "Match") =>
        LET round == arg.tx.Amount % 100 = 0 /\ arg.tx.Amount > 100000
        IN  /\ NumReasons(ret.out.reasons, RoundText) = (IF round THEN 1 ELSE 0)
            /\ ret.out.score = (IF round THEN F(100) ELSE F(0))

C26_Witness ==
    /\ ret # NilScore /\ ret.op = "Match"
    /\ arg.tx.Amount = 100100
    /\ ret.out.score = F(100)
    /\ ret.out.reasons = <<Reason(RoundText, 0, 0)>>

(* The reasons of the rules of rs whose predicate holds on tx, in the       *)
(* order of rs.                                                             *)
RECURSIVE FiredReasons(_, _)
FiredReasons(rs, tx) ==
    IF rs = <<>> THEN <<>>
    ELSE (IF Condition(Head(rs).Condition, tx)
          THEN <<Reason(Head(rs).Description, 0, 0)>> ELSE <<>>)
         \o FiredReasons(Tail(rs), tx)

(* C27: within one Analyze call the stages run in the order rules,          *)
(* velocity, geo, patterns, predictive blend: the Reasons of every result   *)
(* are the descriptions of the matching rules in insertion order, then the  *)
(* velocity reason if the velocity penalty applied, then the impossible     *)
(* travel reason if the travel penalty applied, then the matching pattern   *)
(* descriptions; and the velocity state is read before the geo state.       *)
C27_ReasonsInStageOrder ==
    Returned =>
        LET R == res.score.Reasons
            fired == FiredReasons(rules, last.tx)
            nv == IF last.trace.vScore = F(300) THEN 1 ELSE 0
            ng == IF last.trace.gScore = F(500) THEN 1 ELSE 0
            round == last.tx.Amount % 100 = 0 /\ last.tx.Amount > 100000
            np == IF round THEN 1 ELSE 0
            n == Len(fired)
        IN  /\ Len(R) = n + nv + ng + np
            /\ SubSeq(R, 1, n) = fired
            /\ nv = 1 => R[n + 1].text = VelocityText
            /\ ng = 1 => R[n + nv + 1].text = TravelText
            /\ np = 1 => R[n + nv + ng + 1].text = RoundText
            /\ last.trace.tCount <= last.trace.tGeo

C27_Witness ==
    /\ Returned
    /\ Len(res.score.Reasons) = 5
    /\ res.score.Reasons[1].text = "Transaction amount exceeds threshold"
    /\ res.score.Reasons[2].text = "Custom fraud detection rule"
    /\ res.score.Reasons[3].text = VelocityText
    /\ res.score.Reasons[4].text = TravelText
    /\ res.score.Reasons[5].text = RoundText

(* The sum, from total on, of the weights of the rules of rs whose          *)
(* predicate holds on tx, added in the order of rs.                         *)
RECURSIVE FiredWeight(_, _, _)
FiredWeight(rs, tx, total) ==
    IF rs = <<>> THEN total
    ELSE FiredWeight(Tail(rs), tx,
                     IF Condition(Head(rs).Condition, tx)
                     THEN FAdd(total, Head(rs).Score) ELSE total)

(* C28: for every transaction and every rule collection the rule stage      *)
(* returns the sum of the weights of exactly the rules whose predicate is   *)
(* true of the transaction, with their descriptions in collection order.    *)
(* It fails on a collection holding a rule without a predicate: the stage   *)
(* panics at that rule and returns nothing.                                 *)
C28_RuleStageSums ==
    (ret # NilScore /\ ret.op = "applyRules") =>
        /\ ~ret.out.panic
        /\ ret.out.score = FiredWeight(arg.rs, arg.tx, F(0))
        /\ ret.out.reasons = FiredReasons(arg.rs, arg.tx)

(* The same statement over the collections in which every rule has a        *)
(* predicate.                                                               *)
C28_SumsWithoutNilPredicate ==
    (ret # NilScore /\ ret.op = "applyRules" /\ \A i \in 1..Len(arg.rs) : ~Faults(arg.rs[i].Condition)) =>
        /\ ~ret.out.panic
        /\ ret.out.score = FiredWeight(arg.rs, arg.tx, F(0))
        /\ ret.out.reasons = FiredReasons(arg.rs, arg.tx)

AmountText == "Transaction amount exceeds threshold"

HoursText == "Transaction at unusual hours"

(* C29: of the default rules, HIGH_AMOUNT fires exactly when the amount is  *)
(* above 10000 (weight 0.3, 'Transaction amount exceeds threshold') and     *)
(* UNUSUAL_TIME exactly when the hour of the timestamp is in 2..5 (weight   *)
(* 0.2, 'Transaction at unusual hours'); hence a fresh detector without the *)
(* predictive model gives a single transaction of 15000 a score above 0.2   *)
(* and a reason citing the amount threshold.                                *)
C29_DefaultRulesFire ==
    (ret # NilScore /\ arg.rs = DefaultRules) =>
        LET high == arg.tx.Amount > 1000000
            hours == Hour(arg.tx.Timestamp) \in 2..5
            new == arg.tx.MerchantID = "NEW"
        IN  /\ ret.op = "applyRules" =>
                /\ ~ret.out.panic
                /\ NumReasons(ret.out.reasons, AmountText) = (IF high THEN 1 ELSE 0)
                /\ NumReasons(ret.out.reasons, HoursText) = (IF hours THEN 1 ELSE 0)
                /\ ret.out.score = F((IF high THEN 300 ELSE 0)
                                     + (IF hours THEN 200 ELSE 0)
                                     + (IF new THEN 100 ELSE 0))
            /\ (ret.op = "Analyze" /\ ~arg.cfg.MLEnabled /\ arg.tx.Amount = 1500000) =>
                /\ ~ret.out.panic /\ ret.out.err = ""
                /\ FGt(ret.out.score.Score, F(200))
                /\ NumReasons(ret.out.score.Reasons, AmountText) = 1

C29_Witness ==
    /\ ret # NilScore /\ ret.op = "Analyze"
    /\ arg.rs = DefaultRules /\ ~arg.cfg.MLEnabled
    /\ arg.tx.Amount = 1500000 /\ Hour(arg.tx.Timestamp) = 6
    /\ arg.tx.MerchantID = "M1" /\ arg.cfg.MaxVelocity = 1
    /\ ret.out.score.Score = F(400)
    /\ ret.out.score.Reasons[1].text = AmountText

(* The rule stage alone, at both edges of each default rule.                *)
C29_WitnessEdges ==
    /\ ret # NilScore /\ ret.op = "applyRules" /\ arg.rs = DefaultRules
    /\ arg.tx.Amount = 1000001 /\ Hour(arg.tx.Timestamp) = 5
    /\ ret.out.score = F(500)

(* C30: on a fresh detector with MaxVelocity 2, a one-minute window and     *)
(* BlockThreshold 0.8, after three sequential in-window transactions of one *)
(* account at one location, an immediately following transaction of that    *)
(* account with amount 100000, hour 02, type WIRE_TRANSFER and a far        *)
(* location is scored CRITICAL (at least 0.8) and blocked, with the          *)
(* predictive model enabled or disabled.                                    *)
C30_CombinedIndicatorsCritical ==
    (Returned /\ calls = 4 /\ Len(accounts["ACC-A"]) = 4) =>
        /\ res.score.Risk = "CRITICAL"
        /\ FGe(res.score.Score, F(800))
        /\ res.score.ShouldBlock

C30_Witness ==
    /\ Returned /\ calls = 4
    /\ "ACC-A" \in DOMAIN accounts /\ Len(accounts["ACC-A"]) = 4
    /\ config.MLEnabled
    /\ last.tx.Timestamp = -23 /\ last.tx.MerchantID = "M1"
    /\ last.trace.count = 3
    /\ res.score.Risk = "CRITICAL"
    /\ res.score.ShouldBlock
    /\ Len(res.score.Reasons) = 5
    /\ res.score.Reasons[3].text = VelocityText
    /\ res.score.Reasons[4].text = TravelText

(* C31: SimpleMLModel.Predict returns, for every transaction, a score in    *)
(* [0,1] and a confidence in [0,1]; the confidence is 0.85 reduced by 0.1   *)
(* when DeviceID is empty and by a further 0.1 when IPAddress is empty, so  *)
(* a transaction missing either field gets a confidence below 0.85; and     *)
(* Predict leaves the transaction as it was.                                *)
C31_PredictInUnitInterval ==
    ret # NilScore =>
        LET noDevice == IF arg.tx.DeviceID = "" THEN 100 ELSE 0
            noAddress == IF arg.tx.IPAddress = "" THEN 100 ELSE 0
        IN  /\ FGe(ret.score, F(0)) /\ FLe(ret.score, F(1000))
            /\ FGe(ret.confidence, F(0)) /\ FLe(ret.confidence, F(1000))
            /\ ret.confidence = F(850 - noDevice - noAddress)
            /\ (noDevice + noAddress > 0) => FLt(ret.confidence, F(850))
            /\ ret.tx = arg.tx

C31_Witness ==
    /\ ret # NilScore
    /\ arg.tx.DeviceID = "" /\ arg.tx.IPAddress = ""
    /\ arg.tx.Amount = 6000000 /\ arg.tx.Type = "WIRE_TRANSFER"
    /\ Hour(arg.tx.Timestamp) = 2
    /\ ret.score = F(750)
    /\ ret.confidence = F(650)

(* x == y on float64: false when either side is NaN. *)
FEq(x, y) == ~IsNaN(x) /\ ~IsNaN(y) /\ x = y

(* C32: CalculateDistance is reflexive and symmetric and never negative:    *)
(* CalculateDistance(loc, loc) = 0 for every location and                   *)
(* CalculateDistance(a, b) = CalculateDistance(b, a) for every pair.  It     *)
(* fails for the antipodal pair P6, Q6, whose distance is NaN in both        *)
(* directions and so equal to nothing.                                      *)
C32_DistanceReflexiveSymmetric ==
    ret # NilScore =>
        /\ FEq(ret.self, F(0))
        /\ FEq(ret.there, ret.back)
        /\ ~FLt(ret.there, F(0))

(* The same over the pairs whose distance is a number. *)
C32_SymmetricWhereDefined ==
    (ret # NilScore /\ ~IsNaN(ret.there)) =>
        /\ FEq(ret.self, F(0))
        /\ FEq(ret.there, ret.back)
        /\ ~FLt(ret.there, F(0))

(* The logged Analyze calls for account a. *)
Logged(a) ==
    {n \in 1..Len(ret) : ret[n].op = "Analyze" /\ ret[n].tx.AccountID = a}

Quiescent == \A g \in Goroutines : pc[g] # "running"

(* C33: in every execution of MaxVelocity + 1 Analyze calls for one account *)
(* on a fresh detector, sequential or concurrent, with in-window timestamps, *)
(* exactly one call receives the velocity penalty, the one recorded last;   *)
(* no call is flagged on the strength of transactions recorded after its    *)
(* own.  It fails when the calls overlap: Track and GetCount of one call    *)
(* are separate critical sections, and a call counts what a later call      *)
(* tracked in between.                                                      *)
C33_OnlyLastCallFlagged ==
    \A a \in Accounts :
        (Quiescent /\ Cardinality(Logged(a)) = config.MaxVelocity + 1) =>
            LET flagged == {n \in Logged(a) : ret[n].count > config.MaxVelocity}
            IN  /\ Cardinality(flagged) = 1
                /\ \A n \in flagged : ret[n].pos = config.MaxVelocity + 1
                /\ \A n \in Logged(a) : ret[n].count <= ret[n].pos

(* The same over the executions in which the calls for the account did not  *)
(* overlap.                                                                 *)
C33_SequentialCallsFlagLast ==
    \A a \in Accounts :
        (/\ Quiescent
         /\ Cardinality(Logged(a)) = config.MaxVelocity + 1
         /\ \A n \in Logged(a) : ~ret[n].conc) =>
            LET flagged == {n \in Logged(a) : ret[n].count > config.MaxVelocity}
            IN  /\ Cardinality(flagged) = 1
                /\ \A n \in flagged : ret[n].pos = config.MaxVelocity + 1
                /\ \A n \in Logged(a) : ret[n].count <= ret[n].pos

(* C34: across concurrent Analyze calls for one account the geo state       *)
(* accesses are linearized per call: the location and the observation time  *)
(* a call uses come from the same stored record, and no other call's update *)
(* takes effect between the call's read of the last location and its own    *)
(* update, so that two first transactions are not both treated as having no *)
(* prior location.  It fails: GetLastLocation, GetLastTime and              *)
(* UpdateLocation each take and release the lock on their own.              *)
C34_GeoAccessesLinearized ==
    \A a \in Accounts :
        /\ \A n \in Logged(a) :
              /\ ~ret[n].first => ret[n].timeVer = ret[n].locVer
              /\ ret[n].upd # 0 => ret[n].upd = ret[n].locVer + 1
        /\ Cardinality({n \in Logged(a) : ret[n].first}) <= 1

(* The same over the calls that did not overlap another call for the        *)
(* account.                                                                 *)
C34_SequentialGeoAccesses ==
    \A a \in Accounts :
        (\A n \in Logged(a) : ~ret[n].conc) =>
            /\ \A n \in Logged(a) :
                  /\ ~ret[n].first => ret[n].timeVer = ret[n].locVer
                  /\ ret[n].upd # 0 => ret[n].upd = ret[n].locVer + 1
            /\ Cardinality({n \in Logged(a) : ret[n].first}) <= 1

(* C35: no observation is lost under concurrent tracking: when the Track    *)
(* calls for one account, a previously unknown one included, with in-window *)
(* timestamps have run concurrently and all completed, the account has one  *)
(* velocity state and a subsequent GetCount returns their number.           *)
C35_NoObservationLost ==
    Quiescent =>
        \A a \in Accounts :
            /\ GetCount(accounts, config.VelocityWindow, a, now) = Cardinality(Logged(a))
            /\ a \in DOMAIN accounts <=> Logged(a) # {}
            /\ {ret[n].pos : n \in Logged(a)} = 1..Cardinality(Logged(a))

C35_Witness ==
    /\ Quiescent
    /\ Cardinality(Logged("ACC-A")) = 2
    /\ \A n \in Logged("ACC-A") : ret[n].conc /\ ret[n].first
    /\ GetCount(accounts, config.VelocityWindow, "ACC-A", now) = 2

(* The locks goroutine g holds, and the one it is asking for. *)
Held(g) == {l \in DOMAIN mu : mu[l].writer = g \/ g \in mu[l].readers}

Wanted(g) ==
    IF pc[g] = "running" /\ Instr(g).kind \in {"Lock", "RLock"}
    THEN {Instr(g).lock} ELSE {}

(* C36: the velocity tracker follows the two-level locking discipline in    *)
(* every Track and GetCount: the map lock is released before the account's  *)
(* lock is requested, so no goroutine holds the map lock while holding or   *)
(* waiting for an account lock, and a goroutine working on one account's    *)
(* list never blocks Track or GetCount for a different account.             *)
C36_TwoLevelLocking ==
    \A g \in Goroutines :
        /\ "vmap" \in Held(g) =>
              /\ Held(g) \cap Accounts = {}
              /\ Wanted(g) \cap Accounts = {}
        /\ g \in mu["vmap"].pending => Held(g) \cap Accounts = {}
        /\ \A a \in Held(g) \cap Accounts :
              \A h \in Goroutines \ {g} :
                 \A l \in Wanted(h) \cap (({"vmap"} \cup Accounts) \ {a}) :
                    /\ mu[l].writer # g
                    /\ g \notin mu[l].readers
                    /\ g \notin mu[l].pending

C36_Witness ==
    /\ mu["ACC-A"].writer = "g1"
    /\ frame["g1"].i = Position("Analyze", "append")
    /\ pc["g2"] = "running" /\ frame["g2"].op = "Analyze"
    /\ frame["g2"].tx.AccountID = "ACC-B"
    /\ mu["ACC-B"].writer = "g2"
    /\ frame["g2"].i = Position("Analyze", "count")

(* C37: no stage blocks indefinitely: under fair scheduling, in every       *)
(* interleaving of concurrent Analyze, AddRule, RemoveRule and GetMetrics   *)
(* calls, every call eventually returns, with every lock it acquired        *)
(* released.  It fails for an Analyze that meets a rule without a           *)
(* predicate: applyRules panics, the deferred RUnlock releases the rule     *)
(* lock, and the call never returns.                                        *)
C37_EveryCallReturns ==
    \A g \in {"g1", "g2"} : (pc[g] = "running") ~> (pc[g] = "idle")

(* Every call returns or panics, *)
C37_ReturnsOrPanics ==
    \A g \in {"g1", "g2"} : (pc[g] = "running") ~> (pc[g] \in {"idle", "panicked"})

(* a goroutine outside a call holds no lock and waits for none, *)
C37_LocksReleased ==
    \A g \in Goroutines :
        pc[g] # "running" => Held(g) = {} /\ \A l \in DOMAIN mu : g \notin mu[l].pending

(* and while a call is running some goroutine can take a step.              *)
C37_NoDeadlock ==
    (\E g \in Goroutines : pc[g] = "running") =>
        \E g \in Goroutines :
            ENABLED (Request(g) \/ Acquire(g) \/ Release(g) \/ Step(g) \/ Finish(g))

(* The outcome of the Analyze call last made, had the detector been built   *)
(* with HighRiskThreshold h and been in the same state at the same times.   *)
WithHighRisk(h) ==
    AnalyzeTx([config EXCEPT !.HighRiskThreshold = h], rules, accounts,
              lastLocations, last'.tx, now,
              IF res'.panic THEN now ELSE last'.trace.tCount,
              IF res'.panic THEN now ELSE last'.trace.tGeo,
              IF res'.panic THEN now ELSE last'.trace.tGeo)

(* C38: HighRiskThreshold is informational only.  A detector differing      *)
(* from this one in HighRiskThreshold alone, in the same state and given    *)
(* the same call at the same times, returns the identical result of         *)
(* Analyze (Score, Risk, Reasons, Confidence, ShouldBlock) and is left in   *)
(* the identical state; the value shows in the map of GetMetrics only,      *)
(* which reports it as configured and agrees in every other entry.          *)
C38_HighRiskThresholdInformational ==
    [][\A h \in {F(0), F(300), F(1000)} :
         /\ (last'.op = "Analyze" /\ ~last'.tx.nil) =>
                /\ WithHighRisk(h).result = res'
                /\ WithHighRisk(h).accounts = accounts'
                /\ WithHighRisk(h).lastLocations = lastLocations'
                /\ WithHighRisk(h).trace = last'.trace
         /\ (last'.op = "Analyze" /\ last'.tx.nil) =>
                AnalyzeNil(accounts, lastLocations).result = res'
         /\ last'.op = "GetMetrics" =>
                /\ res'.metrics.high_risk_threshold = config.HighRiskThreshold
                /\ Metrics(rules, [config EXCEPT !.HighRiskThreshold = h])
                     = [res'.metrics EXCEPT !.high_risk_threshold = h]
                /\ (h # config.HighRiskThreshold) =>
                       Metrics(rules, [config EXCEPT !.HighRiskThreshold = h])
                         # res'.metrics]_vars

(* A returned score between 0.3 and the configured 0.6, not blocked: the    *)
(* two thresholds would tell the detectors apart if Analyze consulted them. *)
C38_Witness ==
    /\ last.op = "Analyze" /\ ~last.tx.nil
    /\ res.score # NilScore
    /\ config.HighRiskThreshold = F(600)
    /\ FGe(res.score.Score, F(300)) /\ FLt(res.score.Score, F(600))
    /\ ~res.score.ShouldBlock
    /\ Len(res.score.Reasons) > 0

(* C39: per-account isolation.  Analyze, Track and UpdateLocation for one   *)
(* account leave every other account as it was: whether it has a velocity   *)
(* state and a location record, its list of timestamps, its last location   *)
(* and the time of it.  Analyze of a nil transaction touches no account.    *)
C39_PerAccountIsolation ==
    [][last'.op \in {"Analyze", "Track", "UpdateLocation"} =>
         IF last'.tx.nil
         THEN accounts' = accounts /\ lastLocations' = lastLocations
         ELSE \A b \in Accounts \ {last'.tx.AccountID} :
                /\ b \in DOMAIN accounts' <=> b \in DOMAIN accounts
                /\ b \in DOMAIN accounts => accounts'[b] = accounts[b]
                /\ b \in DOMAIN lastLocations' <=> b \in DOMAIN lastLocations
                /\ b \in DOMAIN lastLocations =>
                       /\ lastLocations'[b].location = lastLocations[b].location
                       /\ lastLocations'[b].time = lastLocations[b].time]_vars

(* A call for ACC-A changed ACC-A's state while ACC-B kept a timestamp      *)
(* that a prune at the time of the call would have dropped, and a location  *)
(* other than the one the call stored.                                      *)
C39_Witness ==
    /\ last.op = "Analyze" /\ ~last.tx.nil
    /\ last.tx.AccountID = "ACC-A"
    /\ DOMAIN accounts = Accounts /\ DOMAIN lastLocations = Accounts
    /\ accounts["ACC-A"] = <<last.tx.Timestamp>>
    /\ accounts["ACC-B"] = <<ZeroTime>>
    /\ GetCount(accounts, config.VelocityWindow, "ACC-B", now) = 0
    /\ lastLocations["ACC-A"].location = last.tx.Location
    /\ lastLocations["ACC-B"].location # last.tx.Location

(* C40: queries are read-only.  GetCount (for a known and for an unknown    *)
(* account), GetLastLocation, GetLastTime and GetMetrics leave the rule     *)
(* list, every velocity list and every location record as they were:        *)
(* GetCount creates no entry for an unknown account and prunes nothing from *)
(* the list of a known one.  (CalculateDistance and Match are operators of  *)
(* their arguments alone.)                                                  *)
C40_QueriesReadOnly ==
    [][last'.op \in {"GetCount", "GetLastLocation", "GetLastTime", "GetMetrics"} =>
         /\ rules' = rules
         /\ accounts' = accounts
         /\ lastLocations' = lastLocations
         /\ config' = config
         /\ (last'.op = "GetCount" /\ last'.tx.AccountID \notin DOMAIN accounts) =>
                /\ last'.tx.AccountID \notin DOMAIN accounts'
                /\ res'.value = 0
         /\ (last'.op = "GetCount" /\ last'.tx.AccountID \in DOMAIN accounts) =>
                Len(accounts'[last'.tx.AccountID])
                  = Len(accounts[last'.tx.AccountID])]_vars

(* GetCount answered 0 for an account whose only timestamp had left the     *)
(* window, and the timestamp is still stored; the other account, never      *)
(* tracked, has no entry.                                                   *)
C40_Witness ==
    /\ last.op = "GetCount"
    /\ last.tx.AccountID = "ACC-A"
    /\ res.value = 0
    /\ DOMAIN accounts = {"ACC-A"}
    /\ Len(accounts["ACC-A"]) = 1
    /\ ~After(accounts["ACC-A"][1], now - config.VelocityWindow)

====
